---------------------------- MODULE Spec2Model ----------------------------
(***************************************************************************)
(* AI-Tutor lesson generation pipeline (apps/api).                         *)
(*                                                                         *)
(* Specifications of this module:                                          *)
(*   Spec        the slide generation orchestrator                         *)
(*               (AITutorService.generate_ai_tutor_lesson) driven by one   *)
(*               of its HTTP callers, one generator segment per pull;      *)
(*   SpecSlide   one slide through TemplateFiller.fill_template and        *)
(*               AITutorService._generate_single_slide, for every template *)
(*               shape, LLM outcome and injected exception;                *)
(*   SpecSuccess the three places that compute the lesson success flag;    *)
(*   SpecMerge   AudioMerger.merge_audio_files_with_silence, one loop      *)
(*               iteration per step;                                       *)
(*   SpecAudio   the handler generate_lesson_merged_audio of               *)
(*               routers/lesson.py: TTS loop, merge, timing update,        *)
(*               clean-up and the persisted audio fields;                  *)
(*   SpecCal     the voice calibration store of PiperTTSService under      *)
(*               concurrent generate_audio coroutines and restarts,        *)
(*               assuming that writing the calibration file succeeds;      *)
(*   SpecEstimate estimate_duration_with_calibration over calibration      *)
(*               tables, texts and voices;                                 *)
(*   SpecPlan    the lesson planner over the outcomes of its topic         *)
(*               analysis, the difficulties and target durations;          *)
(*   SpecCache   the template cache under fill, render and slide           *)
(*               generation calls at the three breakpoints;                *)
(*   SpecSanitize the narration sanitizer applied once and twice;          *)
(*   SpecEntry   the four endpoints that start a lesson generation, up to  *)
(*               the call of the generator;                                *)
(*   SpecEngine  _truncate_text, the heading font size and the breakpoint  *)
(*               of the Template Engine, called on their own;              *)
(*   SpecShared  requests for the merged audio of one lesson interleaved   *)
(*               on one TTS cache directory and one stored lesson;         *)
(*   SpecStream  generate_streaming_audio with its chunk tasks, and        *)
(*               SpecStreamFair with the fairness of the event loop.       *)
(*                                                                         *)
(* Text is modelled as a sequence of tokens; a token is a run of           *)
(* characters that every regular expression involved treats as a unit.     *)
(* Times are integers in milliseconds: the code's /1000.0 is an exact      *)
(* change of unit on these values, so seconds are ms/1000 as rationals.    *)
(***************************************************************************)
EXTENDS Integers, Sequences, FiniteSets, TLC

VARIABLES
    \* ---- orchestrator (ai_tutor_service.py) and its caller (routers) ----
    request,          \* [target, difficulty] of the generation request
    caller,           \* which code consumes the stream
    consumer,         \* "consuming" | "stopped" | "finished"
    pc,               \* where the async generator is suspended
    idx,              \* loop variable i of the slide loop
    lesson_structure, \* planner output: sequence of SlideStructure
    generated_slides, \* list generated_slides of the generator
    events,           \* every (progress_update, slide_result) yielded so far
    calls,            \* collaborator calls issued so far, stamped with Len(events)
    audio_result,     \* local audio_result of the generator
    final_lesson,     \* local final_lesson of the generator
    router_slides,    \* slides collected by the caller
    response,         \* what the caller returns to its client
    \* ---- one slide (template_filling_service.py, ai_tutor_service.py) ----
    slide_in,         \* inputs of one fill / one slide generation
    slide_out,        \* their results
    \* ---- success flag ----
    status_list,      \* a list of slide statuses
    flags,            \* success flag per computing site
    \* ---- audio merger (utils/audio_merger.py) ----
    merge_in,         \* clips (measured ms) and segment_info
    merge_pc,         \* position in merge_audio_files_with_silence
    merge_i,          \* loop index i
    current_time_ms,  \* local current_time_ms
    merged_len_ms,    \* len(merged_audio)
    updated_segments, \* local updated_segments
    merge_out,        \* returned tuple
    \* ---- merged lesson audio (routers/lesson.py generate_lesson_merged_audio) ----
    lesson,           \* the Lesson document: slides and the audio fields
    audio_pc,         \* position in the handler
    lesson_audio_segments, \* local audio_segments
    individual_audio_ids, \* local individual_audio_ids
    lesson_current_time,   \* local current_time (ms)
    clip_files,       \* audio files on disk: audio_id -> measured length (ms)
    deleted_clips,    \* audio ids removed by cleanup_individual_files
    merged_asset,     \* the exported merged file, its length in ms
    merge_call,       \* how the merge call ended, and what it was given
    total_duration,   \* local total_duration (ms)
    merged_audio_url, \* local merged_audio_url
    \* ---- voice calibration store (services/tts_service.py) ----
    voice_calibrations, \* in-memory table: voice_id -> VoiceCalibrationData
    calibration_file,   \* the persisted JSON document
    tasks,              \* concurrent generate_audio coroutines
    measurements,       \* valid measurements recorded so far, per voice
    initial_calibrations, \* the table the process started with
    estimate,           \* last estimate_duration_with_calibration call
    clock,              \* datetime.now(), in ticks
    \* ---- lesson planner (services/lesson_structure_service.py) ----
    plan_in,          \* request and the outcome of the topic-analysis call
    plan_out,         \* what analyze_topic_structure returned or raised
    \* ---- template cache (services/template_service.py) ----
    templates_cache,  \* template_service.templates_cache: id -> template
    cache_out,        \* the last fill / render / slide generation on it
    \* ---- narration sanitizer (ai_tutor_service.py) ----
    sanitize_in,      \* a text handed to _sanitize_text_for_tts
    sanitize_out,     \* the text after one pass and after two passes
    \* ---- endpoints that start a lesson generation (routers) ----
    entry_in,         \* the endpoint, the request fields and the user settings
    entry_out,        \* rejected, or the arguments handed to the generator
    \* ---- Template Engine helpers (services/template_service.py) ----
    engine_in,        \* one call: its operation and arguments
    engine_out,       \* what the call returned
    \* ---- audio requests sharing the TTS cache (routers/lesson.py, tts_service.py) ----
    race_pc,          \* per request: where generate_lesson_merged_audio stands
    cache_dir,        \* the .wav files of the TTS cache, oldest mtime first
    removed_clips,    \* for each removed file: evicted by the cache or cleaned after a merge
    recorded_ids,     \* per request: its list individual_audio_ids
    merge_read,       \* per request: what its merge step found on disk
    lesson_doc,       \* the stored lesson: audio_generated and merged_audio_url
    \* ---- streaming TTS (generate_streaming_audio of tts_service.py) ----
    stream_pc,        \* where the async generator stands
    generation_tasks, \* dict generation_tasks: chunk index -> state of its task
    pending_results,  \* dict pending_results: chunk index -> collected result
    yielded           \* the chunks yielded so far, in the order of the yields

orchVars == <<request, caller, consumer, pc, idx, lesson_structure,
              generated_slides, events, calls, audio_result, final_lesson,
              router_slides,
              response>>
slideVars == <<slide_in, slide_out>>
flagVars == <<status_list, flags>>
mergeVars == <<merge_in, merge_pc, merge_i, current_time_ms, merged_len_ms,
               updated_segments, merge_out>>
audioVars == <<lesson, audio_pc, lesson_audio_segments, individual_audio_ids,
               lesson_current_time,
               clip_files, deleted_clips, merged_asset, merge_call, total_duration,
               merged_audio_url>>
calVars == <<voice_calibrations, calibration_file, tasks, measurements,
             initial_calibrations, estimate, clock>>
planVars == <<plan_in, plan_out>>
cacheVars == <<templates_cache, cache_out>>
sanVars == <<sanitize_in, sanitize_out>>
entryVars == <<entry_in, entry_out>>
engineVars == <<engine_in, engine_out>>
raceVars == <<race_pc, cache_dir, removed_clips, recorded_ids, merge_read, lesson_doc>>
streamVars == <<stream_pc, generation_tasks, pending_results, yielded>>
moreVars == <<entryVars, engineVars, raceVars, streamVars>>
laterVars == <<planVars, cacheVars, sanVars, moreVars>>
vars == <<orchVars, slideVars, flagVars, mergeVars, audioVars, calVars,
          laterVars>>

None == "None"

Max(a, b) == IF a >= b THEN a ELSE b
Min(a, b) == IF a <= b THEN a ELSE b

RECURSIVE SumSeq(_)
SumSeq(s) == IF s = <<>> THEN 0 ELSE Head(s) + SumSeq(Tail(s))

RECURSIVE SeqsUpTo(_, _)
\* All sequences over S of length 0..n.
SeqsUpTo(S, n) ==
    IF n = 0 THEN {<<>>}
    ELSE LET shorter == SeqsUpTo(S, n - 1)
         IN  shorter \cup {Append(s, x) : s \in {t \in shorter : Len(t) = n - 1}, x \in S}

(***************************************************************************)
(* Text                                                                    *)
(***************************************************************************)
\* Characters in a token.
TokLen(t) ==
    CASE t = "word"   -> 5      \* a plain on-topic word
      [] t = "ab"     -> 2      \* two plain characters
      [] t = " "      -> 1
      [] t = "."      -> 1
      [] t = "..."    -> 3
      [] t = "*"      -> 1      \* a markdown marker character
      [] t = "{{"     -> 2      \* a placeholder token
      [] t = "dna"    -> 3      \* entries of the off-topic watch list
      [] t = "recipe" -> 6
      [] t = "bullet" -> 1      \* the bullet character
      [] t = "counterrevolutionary" -> 20   \* one long word
      [] t = ":"      -> 1
      [] t = "-"      -> 1
      [] t = "emoji"  -> 1      \* one emoji character
      [] t = "narration" -> 9   \* the word of the "Narration:" prefix
      [] OTHER        -> 20     \* a static, pre-written sentence

RECURSIVE TextLen(_)
TextLen(text) == IF text = <<>> THEN 0 ELSE TokLen(Head(text)) + TextLen(Tail(text))

RECURSIVE StripLeft(_)
StripLeft(text) ==
    IF text # <<>> /\ Head(text) = " " THEN StripLeft(Tail(text)) ELSE text

RECURSIVE StripRight(_)
StripRight(text) ==
    IF text # <<>> /\ text[Len(text)] = " "
    THEN StripRight(SubSeq(text, 1, Len(text) - 1))
    ELSE text

\* str.strip()
Strip(text) == StripRight(StripLeft(text))

RECURSIVE RemoveToken(_, _)
RemoveToken(text, tok) ==
    IF text = <<>> THEN <<>>
    ELSE IF Head(text) = tok THEN RemoveToken(Tail(text), tok)
    ELSE <<Head(text)>> \o RemoveToken(Tail(text), tok)

RECURSIVE CollapseSpaces(_)
\* re.sub(r'\s+', ' ', text)
CollapseSpaces(text) ==
    IF Len(text) < 2 THEN text
    ELSE IF text[1] = " " /\ text[2] = " " THEN CollapseSpaces(Tail(text))
    ELSE <<Head(text)>> \o CollapseSpaces(Tail(text))

Contains(text, tok) == \E k \in 1..Len(text) : text[k] = tok

CountOf(text, toks) == Cardinality({t \in toks : Contains(text, t)})


(***************************************************************************)
(* Template catalog.  The catalog is the JSON under data/templates, which  *)
(* is loaded into templates_cache at start-up; the shapes below cover the  *)
(* cases the slide schema allows (section 3 of the design).                *)
(***************************************************************************)
Fields == {"heading", "content", "narration"}

\* dict.get(key, default) on a function used as a dict
Get(d, key, default) == IF key \in DOMAIN d THEN d[key] ELSE default

EmptyDict == [k \in {} |-> <<>>]

\* responsive: a mobile override of the heading's maxChars
MobileOverrides ==
    [b \in {"mobile"} |-> [k \in {"heading"} |-> [maxChars |-> 30]]]

TextCfg == [maxChars |-> 300, maxLines |-> 5, format |-> "text"]

BaseLayout == [k \in {"heading", "content"} |->
                 IF k = "heading" THEN [maxChars |-> 60, maxLines |-> 1, format |-> "text"]
                 ELSE TextCfg]

FullFallback == [k \in {"heading", "content"} |->
                   IF k = "heading" THEN <<"template fallback heading">>
                   ELSE <<"template fallback content">>]

\* every placeholder prompted, fallbackData complete
TplFull ==
    [id |-> "tpl-full", nslides |-> 1,
     placeholders |-> <<"heading", "content">>,
     llmPrompts |-> {"heading", "content"},
     fallbackData |-> FullFallback,
     layout |-> BaseLayout,
     responsive |-> MobileOverrides]

\* a dedicated narration placeholder
TplNarration ==
    [id |-> "tpl-narration", nslides |-> 1,
     placeholders |-> <<"heading", "content", "narration">>,
     llmPrompts |-> {"heading", "content", "narration"},
     fallbackData |-> [k \in Fields |->
                         IF k = "narration" THEN <<"template fallback narration">>
                         ELSE FullFallback[k]],
     layout |-> BaseLayout,
     responsive |-> MobileOverrides]

\* fallbackData lacks the content key
TplNoContentFallback ==
    [id |-> "tpl-no-content-fallback", nslides |-> 1,
     placeholders |-> <<"heading", "content">>,
     llmPrompts |-> {"heading", "content"},
     fallbackData |-> [k \in {"heading"} |-> <<"template fallback heading">>],
     layout |-> BaseLayout,
     responsive |-> MobileOverrides]

\* the content placeholder has no LLM prompt; content is bullet formatted
TplUnprompted ==
    [id |-> "tpl-unprompted", nslides |-> 1,
     placeholders |-> <<"heading", "content">>,
     llmPrompts |-> {"heading"},
     fallbackData |-> FullFallback,
     layout |-> [BaseLayout EXCEPT !["content"].format = "bullets"],
     responsive |-> EmptyDict]

\* no fallbackData at all, and a tight heading
TplNoFallback ==
    [id |-> "tpl-no-fallback", nslides |-> 1,
     placeholders |-> <<"heading", "content">>,
     llmPrompts |-> {"heading", "content"},
     fallbackData |-> EmptyDict,
     layout |-> [BaseLayout EXCEPT !["heading"].maxChars = 12],
     responsive |-> EmptyDict]

\* a template record without slides
TplNoSlides ==
    [id |-> "tpl-no-slides", nslides |-> 0,
     placeholders |-> <<>>,
     llmPrompts |-> {},
     fallbackData |-> EmptyDict,
     layout |-> BaseLayout,
     responsive |-> MobileOverrides]

Catalog == {TplFull, TplNarration, TplNoContentFallback, TplUnprompted,
            TplNoFallback, TplNoSlides}

\* TemplateService.get_template: templates_cache.get(template_id)
NoTemplate == [id |-> None]

get_template(template_id) ==
    IF \E t \in Catalog : t.id = template_id
    THEN CHOOSE t \in Catalog : t.id = template_id
    ELSE NoTemplate

\* ContainerSize.breakpoint of the Template Engine
Breakpoint(width) ==
    IF width < 768 THEN "mobile"
    ELSE IF width < 1024 THEN "tablet"
    ELSE "desktop"

\* a Filler that puts the boundary widths into the narrower breakpoint
filler_breakpoint_inclusive(width) ==
    IF width <= 768 THEN "mobile"
    ELSE IF width <= 1024 THEN "tablet"
    ELSE "desktop"

\* the Filler's own breakpoint selection in _get_responsive_constraints
filler_breakpoint(width) ==
    IF width < 768 THEN "mobile"
    ELSE IF width < 1024 THEN "tablet"
    ELSE "desktop"

(***************************************************************************)
(* TemplateFiller (services/template_filling_service.py)                   *)
(***************************************************************************)
\* An LLM outcome: the collaborator throws, returns None, or returns text.
LlmRaise == [kind |-> "raise", text |-> <<>>]
LlmNone == [kind |-> "none", text |-> <<>>]
LlmText(t) == [kind |-> "text", text |-> t]

Raised(m) == [raised |-> TRUE, msg |-> m, value |-> <<>>]
Returned(v) == [raised |-> FALSE, msg |-> "", value |-> v]

\* TemplateFiller._extract_constraints
extract_constraints(layout) ==
    [k \in DOMAIN layout |->
        [maxChars |-> layout[k].maxChars,
         maxLines |-> layout[k].maxLines,
         format |-> layout[k].format]]

\* dict.update: the keys of patch win, the other keys stay
Update(d, patch) ==
    [k \in DOMAIN d \cup DOMAIN patch |-> IF k \in DOMAIN patch THEN patch[k] ELSE d[k]]

\* The merge of TemplateFiller._get_responsive_constraints (lines 161-167):
\* layout is a shallow copy of slide["layout"], so layout[element_type] is
\* the dict of the template itself and update() writes the breakpoint's
\* overrides into it.  The value is the template as the call leaves it.
merge_responsive_overrides(template, width) ==
    LET breakpoint == filler_breakpoint(width)
        responsive_overrides == Get(template.responsive, breakpoint, EmptyDict)
    IN  [template EXCEPT !.layout =
            [k \in DOMAIN template.layout |->
                IF k \in DOMAIN responsive_overrides
                THEN Update(template.layout[k], responsive_overrides[k])
                ELSE template.layout[k]]]

\* TemplateFiller._get_responsive_constraints: the base layout with the
\* breakpoint's overrides applied to the element kinds the layout has
get_responsive_constraints(template, width) ==
    extract_constraints(merge_responsive_overrides(template, width).layout)

RECURSIVE PrefixWithin(_, _)
\* content[:max_chars], cut at a token boundary
PrefixWithin(text, n) ==
    IF text = <<>> \/ TokLen(Head(text)) > n THEN <<>>
    ELSE <<Head(text)>> \o PrefixWithin(Tail(text), n - TokLen(Head(text)))

\* trimmed.rfind(' ') as a character offset, -1 when there is none
LastSpace(text) ==
    IF Contains(text, " ")
    THEN LET k == CHOOSE j \in 1..Len(text) :
                    text[j] = " " /\ \A m \in (j + 1)..Len(text) : text[m] # " "
         IN  TextLen(SubSeq(text, 1, k - 1))
    ELSE -1

RECURSIVE PrefixChars(_, _)
\* text[:n] for n a token boundary
PrefixChars(text, n) ==
    IF text = <<>> \/ n <= 0 THEN <<>>
    ELSE <<Head(text)>> \o PrefixChars(Tail(text), n - TokLen(Head(text)))

\* TemplateFiller._validate_and_trim_content; model text has one line
validate_and_trim_content(content, constraints) ==
    LET max_chars == constraints.maxChars
        lined == IF constraints.format = "bullets"
                 THEN (IF Strip(content) = <<>> THEN <<>>
                       ELSE IF Head(Strip(content)) \in {"bullet", "-"} THEN Strip(content)
                       ELSE <<"bullet", " ">> \o Strip(content))
                 ELSE content
        trimmed == PrefixWithin(lined, max_chars)
        last_space == LastSpace(trimmed)
    IN  IF TextLen(lined) > max_chars
        THEN (IF last_space * 10 > max_chars * 7
              THEN PrefixChars(trimmed, last_space) \o <<"...">>
              ELSE trimmed \o <<"...">>)
        ELSE lined

\* A collaborator wrapper that lets None and blank text through as empty
\* content: the variant C9_WholeFallback rejects.
call_llm_blank_ok(outcome, constraints) ==
    IF outcome.kind = "raise"
    THEN Raised("Failed to generate content: request failed")
    ELSE Returned(validate_and_trim_content(Strip(outcome.text), constraints))

\* TemplateFiller._call_llm: an exception, None or blank text all raise
call_llm(outcome, constraints) ==
    IF outcome.kind = "raise"
    THEN Raised("Failed to generate content: request failed")
    ELSE IF outcome.kind = "none" \/ Strip(outcome.text) = <<>>
    THEN Raised("Failed to generate content: Empty response from LLM")
    ELSE Returned(validate_and_trim_content(Strip(outcome.text), constraints))

RECURSIVE CollapseColons(_)
\* ':{2,}' -> ':'
CollapseColons(text) ==
    IF Len(text) < 2 THEN text
    ELSE IF text[1] = ":" /\ text[2] = ":" THEN CollapseColons(Tail(text))
    ELSE <<Head(text)>> \o CollapseColons(Tail(text))

RECURSIVE TrimArtifacts(_)
\* '^[:\-\*\s]+' -> '' and '[:\-\*\s]+$' -> ''
TrimArtifacts(text) ==
    IF text # <<>> /\ Head(text) \in {":", "-", "*", " "}
    THEN TrimArtifacts(Tail(text))
    ELSE IF text # <<>> /\ text[Len(text)] \in {":", "-", "*", " "}
    THEN TrimArtifacts(SubSeq(text, 1, Len(text) - 1))
    ELSE text

\* TemplateFiller._sanitize_llm_output: every asterisk goes (in pairs, then
\* the rest), runs of colons and of white space are collapsed, colons,
\* hyphens and white space are cut from both ends
sanitize_llm_output(content) ==
    IF content = <<>> THEN content
    ELSE TrimArtifacts(CollapseSpaces(CollapseColons(RemoveToken(content, "*"))))

obvious_placeholders == {"{{"}
off_topic_indicators == {"dna", "recipe"}

MinLength(field_name) ==
    CASE field_name \in {"heading", "title"} -> 3
      [] field_name \in {"content", "body"}  -> 10
      [] field_name = "text"                 -> 5
      [] OTHER                               -> 3

\* TemplateFiller._is_content_acceptable: the quality gate
is_content_acceptable(content, field_name) ==
    /\ Strip(content) # <<>>
    /\ CountOf(content, obvious_placeholders) = 0
    /\ CountOf(content, off_topic_indicators) < 2
    /\ ~ \E k \in 1..(Len(content) - 1) : content[k] = "*" /\ content[k + 1] = "*"
    /\ Cardinality({k \in 1..Len(content) : content[k] = "*"}) <= 3
    /\ TextLen(Strip(content)) >= MinLength(field_name)

\* TemplateFiller._get_fallback_content: the field-level static fallback
FillerFallback(field_name) ==
    CASE field_name = "heading" -> <<"Key Learning Concepts">>
      [] field_name = "content" -> <<"This section covers essential information">>
      [] OTHER                  -> <<"Quality educational content">>


\* dict[key] = value
Put(d, key, value) ==
    [k \in DOMAIN d \cup {key} |-> IF k = key THEN value ELSE d[k]]

RECURSIVE FillPlaceholders(_, _, _, _, _)
\* The loop of TemplateFiller._generate_content_with_llm over the slide's
\* placeholders: keys still to do, LLM outcomes still unused, content so far.
\* A prompted placeholder takes the next LLM outcome, sanitized and ungated.
FillPlaceholders(slide, keys, outcomes, constraints, filled_content) ==
    IF keys = <<>> THEN Returned(filled_content)
    ELSE LET placeholder_key == Head(keys)
         IN  IF placeholder_key \in slide.llmPrompts
             THEN LET element_constraints == Get(constraints, placeholder_key, TextCfg)
                      raw_content == call_llm(Head(outcomes), element_constraints)
                  IN  IF raw_content.raised THEN raw_content
                      ELSE FillPlaceholders(slide, Tail(keys), Tail(outcomes), constraints,
                               Put(filled_content, placeholder_key,
                                   sanitize_llm_output(raw_content.value)))
             ELSE FillPlaceholders(slide, Tail(keys), outcomes, constraints,
                      Put(filled_content, placeholder_key,
                          Get(slide.fallbackData, placeholder_key,
                              <<"[No content generated]">>)))

\* TemplateFiller._generate_content_with_llm
generate_content_with_llm(slide, outcomes, constraints) ==
    FillPlaceholders(slide, slide.placeholders, outcomes, constraints, EmptyDict)

\* TemplateFiller._create_fallback_template
create_fallback_template(template) ==
    [filled_content |-> template.fallbackData,
     generation_method |-> "fallback",
     is_fallback |-> TRUE]

\* TemplateFiller.fill_template
fill_template(template, outcomes, slide_index, width) ==
    IF slide_index >= template.nslides
    THEN Raised("Slide index out of range")
    ELSE LET constraints == get_responsive_constraints(template, width)
             filled == generate_content_with_llm(template, outcomes, constraints)
         IN  IF filled.raised
             THEN Returned(create_fallback_template(template))
             ELSE Returned([filled_content |-> filled.value,
                            generation_method |-> "llm",
                            is_fallback |-> FALSE])

max_retries == 2

\* a loop that sends the original prompt on every attempt
attempt_prompt_unchanged(attempt) == "prompt"

\* the prompt of one attempt: the original one, or from the second attempt
\* on the one with the topic-focus sentence appended
attempt_prompt(attempt) ==
    IF attempt > 0 THEN "focused_prompt" ELSE "prompt"

RECURSIVE RetryRun(_, _, _, _, _)
\* The loop of _call_llm_with_retry from one attempt on: outcomes[attempt + 1]
\* is what the LLM does on that attempt, prompts the prompts sent so far.
RetryRun(attempt, outcomes, constraints, field_name, prompts) ==
    IF attempt > max_retries
    THEN [content |-> FillerFallback(field_name), prompts |-> prompts]
    ELSE LET sent == Append(prompts, attempt_prompt(attempt))
             raw_content == call_llm(outcomes[attempt + 1], constraints)
             content == sanitize_llm_output(raw_content.value)
             fallback == [content |-> FillerFallback(field_name), prompts |-> sent]
         IN  IF raw_content.raised
             THEN (IF attempt = max_retries THEN fallback
                   ELSE RetryRun(attempt + 1, outcomes, constraints, field_name, sent))
             ELSE IF is_content_acceptable(content, field_name)
             THEN [content |-> content, prompts |-> sent]
             ELSE IF attempt = max_retries THEN fallback
             ELSE RetryRun(attempt + 1, outcomes, constraints, field_name, sent)

\* what the loop returns
RetryFrom(attempt, outcomes, constraints, field_name) ==
    RetryRun(attempt, outcomes, constraints, field_name, <<>>).content

\* TemplateFiller._call_llm_with_retry
call_llm_with_retry(outcomes, constraints, field_name) ==
    RetryFrom(0, outcomes, constraints, field_name)

\* TemplateFiller._generate_content_from_structured_prompts: every field of
\* content_prompts goes through the retry loop
generate_content_from_structured_prompts(content_prompts, outcomes, constraints) ==
    [field_name \in content_prompts |->
        call_llm_with_retry(outcomes, Get(constraints, field_name, TextCfg), field_name)]

\* TemplateFiller.fill_template_with_prompts
fill_template_with_prompts(template, content_prompts, outcomes, slide_index, width) ==
    IF slide_index >= template.nslides
    THEN Raised("Slide index out of range")
    ELSE LET constraints == get_responsive_constraints(template, width)
         IN  Returned([filled_content |->
                           generate_content_from_structured_prompts(
                               content_prompts, outcomes, constraints),
                       generation_method |-> "structured_prompts",
                       is_fallback |-> FALSE])


(***************************************************************************)
(* AITutorService, one slide (services/ai_tutor_service.py)                *)
(***************************************************************************)
slide_width == 1200
slide_spacing == 100

\* Where an exception that is not the LLM's can be injected into one slide:
\* in the filler outside its own try, in the verification pass, in the
\* template engine, in the narration builder.
Faults == {"none", "fill", "verify", "render", "narrate"}

\* str(e) of the injected exception; the interpreter's own exceptions
\* (AttributeError, TypeError, ValueError) all carry a message.
FaultMessage(fault) ==
    CASE fault = "fill"    -> "filler raised"
      [] fault = "verify"  -> "object has no attribute strip"
      [] fault = "render"  -> "template engine raised"
      [] fault = "narrate" -> "expected string or bytes-like object"
      [] OTHER             -> ""

\* AITutorService._get_fallback_content: one heading/content pair per type
get_fallback_content(content_type) ==
    [k \in {"heading", "content"} |->
        IF k = "heading" THEN <<"service fallback heading">>
        ELSE <<"service fallback content">>]

\* AITutorService._generate_slide_content: the filler's exceptions and a
\* missing template both end in _get_fallback_content
slide_content_from(template, slide_structure, scenario) ==
    IF template = NoTemplate
    THEN get_fallback_content(slide_structure.content_type)
    ELSE LET filled_template ==
                 IF scenario.fault = "fill" THEN Raised(FaultMessage("fill"))
                 ELSE fill_template(template, scenario.llm, 0, slide_width)
         IN  IF filled_template.raised
             THEN get_fallback_content(slide_structure.content_type)
             ELSE filled_template.value.filled_content

generate_slide_content(slide_structure, scenario) ==
    slide_content_from(get_template(slide_structure.template_id), slide_structure,
                       scenario)

\* the dict generic_fallback of _verify_and_add_fallback with its default
GenericFallback(content_type) ==
    [k \in {"heading", "content"} |->
        IF k = "heading" THEN <<"generic fallback heading">>
        ELSE <<"generic fallback content">>]

\* TemplateService.get_template_prompts_and_fallbacks(template_id, 0)
get_template_prompts_and_fallbacks(template_id) ==
    LET template == get_template(template_id)
    IN  IF template = NoTemplate THEN Raised("Template not found")
        ELSE IF 0 >= template.nslides THEN Raised("Slide index 0 out of range")
        ELSE Returned([prompts |-> template.llmPrompts,
                       fallbacks |-> template.fallbackData])

\* "not filled_content.get(f) or len(filled_content[f].strip()) < 5"
NeedsFallback(filled_content, field_name) ==
    \/ field_name \notin DOMAIN filled_content
    \/ filled_content[field_name] = <<>>
    \/ TextLen(Strip(filled_content[field_name])) < 5

\* AITutorService._verify_and_add_fallback: only the keys of the chosen
\* fallback dict are visited
verify_and_add_fallback(filled_content, slide_structure) ==
    LET template_data == get_template_prompts_and_fallbacks(slide_structure.template_id)
        template_fallback == IF template_data.raised THEN EmptyDict
                             ELSE template_data.value.fallbacks
        slide_fallback == IF DOMAIN template_fallback # {} THEN template_fallback
                          ELSE GenericFallback(slide_structure.content_type)
    IN  [k \in DOMAIN filled_content \cup
               {f \in DOMAIN slide_fallback : NeedsFallback(filled_content, f)} |->
            IF k \in DOMAIN slide_fallback /\ NeedsFallback(filled_content, k)
            THEN slide_fallback[k]
            ELSE filled_content[k]]

\* TemplateService._calculate_elements: a heading and a content element,
\* each only when the layout and the content both have it
calculate_elements(layout, filled_content) ==
    (IF "heading" \in DOMAIN layout /\ "heading" \in DOMAIN filled_content
     THEN <<"heading">> ELSE <<>>)
    \o (IF "content" \in DOMAIN layout /\ "content" \in DOMAIN filled_content
        THEN <<"content">> ELSE <<>>)

\* TemplateService.render_template_with_content(template_id, content, size, 0, offset)
render_template_with_content(template_id, filled_content) ==
    LET template == get_template(template_id)
    IN  IF template = NoTemplate THEN Raised("Template not found")
        ELSE IF 0 >= template.nslides THEN Raised("Slide index 0 out of range")
        ELSE Returned(calculate_elements(template.layout, filled_content))

\* AITutorService._render_slide_elements: every exception and every empty
\* render ends in the template's own "elements", which no template record
\* has, so in an empty list
render_slide_elements(template_id, filled_content, scenario) ==
    LET result == IF scenario.fault = "render" THEN Raised(FaultMessage("render"))
                  ELSE render_template_with_content(template_id, filled_content)
    IN  IF result.raised THEN <<>>
        ELSE IF result.value # <<>> THEN result.value
        ELSE <<>>

\* ---- AITutorService._sanitize_text_for_tts, substitution by substitution.
\* A text is one line.  Its tokens are words, " ", ".", "..." (three
\* periods), "*", ":", "-", "emoji" (one emoji character), "narration" and
\* "explanation" (the labels, in any case) and "e.g", "i.e", "etc" (an
\* abbreviation without its last period).  Underscores, hashes, backticks
\* and brackets do not occur in the texts of the model, so the
\* substitutions for them change nothing.

\* '^(NARRATION|Narration):\s*' -> '' (and the same for Explanation)
RemoveLabel(text, label) ==
    IF Len(text) >= 2 /\ text[1] = label /\ text[2] = ":"
    THEN StripLeft(SubSeq(text, 3, Len(text)))
    ELSE text

\* positions where the marker (n asterisks in a row) starts, from position from on
MarkerAt(text, n, from) ==
    {k \in from..(Len(text) - n + 1) : \A j \in 0..(n - 1) : text[k + j] = "*"}

RECURSIVE RemovePairs(_, _)
\* '\*\*(.*?)\*\*' -> '\1' for n = 2 and '\*(.*?)\*' -> '\1' for n = 1: the
\* leftmost opening marker with the nearest closing marker, then on from
\* behind the closing marker
RemovePairs(text, n) ==
    LET opening == MarkerAt(text, n, 1)
        open == CHOOSE k \in opening : \A j \in opening : k <= j
        closing == MarkerAt(text, n, open + n)
        close == CHOOSE k \in closing : \A j \in closing : k <= j
    IN  IF opening = {} THEN text
        ELSE IF closing = {} THEN text
        ELSE SubSeq(text, 1, open - 1) \o SubSeq(text, open + n, close - 1)
                 \o RemovePairs(SubSeq(text, close + n, Len(text)), n)

RECURSIVE ColonBeforeMarker(_)
\* ':\s*\*' -> ': ' (after the pairs are gone no two asterisks are left
\* for ':\s*\*\*')
ColonBeforeMarker(text) ==
    IF text = <<>> THEN <<>>
    ELSE IF Head(text) = ":" /\ StripLeft(Tail(text)) # <<>>
            /\ Head(StripLeft(Tail(text))) = "*"
    THEN <<":", " ">> \o ColonBeforeMarker(Tail(StripLeft(Tail(text))))
    ELSE <<Head(text)>> \o ColonBeforeMarker(Tail(text))

\* ':\s*$' -> '.'
ColonAtEnd(text) ==
    IF StripRight(text) # <<>> /\ StripRight(text)[Len(StripRight(text))] = ":"
    THEN SubSeq(StripRight(text), 1, Len(StripRight(text)) - 1) \o <<".">>
    ELSE text

\* '^\s*[-*+]\s+' -> ''
RemoveBullet(text) ==
    LET body == StripLeft(text)
    IN  IF Len(body) >= 2 /\ body[1] \in {"-", "*", "+"} /\ body[2] = " "
        THEN StripLeft(Tail(body))
        ELSE text

RECURSIVE SinglePeriods(_)
\* "..." written out as its three periods
SinglePeriods(text) ==
    IF text = <<>> THEN <<>>
    ELSE IF Head(text) = "..." THEN <<".", ".", ".">> \o SinglePeriods(Tail(text))
    ELSE <<Head(text)>> \o SinglePeriods(Tail(text))

RECURSIVE CollapsePeriods(_)
\* '\.{2,}' -> '.'
CollapsePeriods(text) ==
    IF Len(text) >= 2 /\ text[1] = "." /\ text[2] = "."
    THEN CollapsePeriods(Tail(text))
    ELSE IF text = <<>> THEN <<>>
    ELSE <<Head(text)>> \o CollapsePeriods(Tail(text))

RECURSIVE JoinSpacedPeriods(_)
\* '\s*\.\s*\.' -> '.': one pass from the left, matches do not overlap
JoinSpacedPeriods(text) ==
    LET first == StripLeft(text)
        second == IF first = <<>> THEN <<>> ELSE StripLeft(Tail(first))
    IN  IF text = <<>> THEN <<>>
        ELSE IF first # <<>> /\ Head(first) = "." /\ second # <<>> /\ Head(second) = "."
        THEN <<".">> \o JoinSpacedPeriods(Tail(second))
        ELSE <<Head(text)>> \o JoinSpacedPeriods(Tail(text))

RECURSIVE SpellOut(_, _, _)
\* str.replace('e.g.', 'for example') and the like
SpellOut(text, abbreviation, words) ==
    IF text = <<>> THEN <<>>
    ELSE IF Len(text) >= 2 /\ text[1] = abbreviation /\ text[2] = "."
    THEN <<words>> \o SpellOut(Tail(Tail(text)), abbreviation, words)
    ELSE <<Head(text)>> \o SpellOut(Tail(text), abbreviation, words)

\* AITutorService._sanitize_text_for_tts
sanitize_text_for_tts(text) ==
    IF text = <<>> THEN text
    ELSE LET no_emoji == RemoveToken(text, "emoji")
             no_label == RemoveLabel(RemoveLabel(no_emoji, "narration"), "explanation")
             no_markdown == RemovePairs(RemovePairs(no_label, 2), 1)
             colons == ColonAtEnd(ColonBeforeMarker(no_markdown))
             spaced == CollapseSpaces(RemoveBullet(colons))
             periods == JoinSpacedPeriods(CollapsePeriods(SinglePeriods(spaced)))
             spoken == SpellOut(SpellOut(SpellOut(periods, "e.g", "for example"),
                                         "i.e", "that is"), "etc", "and so on")
         IN  Strip(spoken)

\* "if narration and not narration.endswith(('.', '!', '?')): narration += '.'"
EndSentence(narration) ==
    IF narration # <<>> /\ narration[Len(narration)] # "."
    THEN narration \o <<".">>
    ELSE narration

\* AITutorService._generate_slide_narration
generate_slide_narration(filled_content, slide_structure) ==
    IF /\ "narration" \in DOMAIN filled_content
       /\ filled_content["narration"] # <<>>
       /\ Strip(filled_content["narration"]) # <<>>
    THEN EndSentence(sanitize_text_for_tts(Strip(filled_content["narration"])))
    ELSE LET heading == IF "heading" \in DOMAIN filled_content
                           /\ filled_content["heading"] # <<>>
                        THEN <<sanitize_text_for_tts(filled_content["heading"])>>
                        ELSE <<>>
             content == IF "content" \in DOMAIN filled_content
                           /\ filled_content["content"] # <<>>
                        THEN <<sanitize_text_for_tts(filled_content["content"])>>
                        ELSE <<>>
             content_parts == heading \o content
         IN  IF content_parts = <<>>
             THEN <<"This slide covers the content type.">>
             ELSE EndSentence(sanitize_text_for_tts(
                      IF Len(content_parts) = 1 THEN content_parts[1]
                      ELSE content_parts[1] \o <<".", " ">> \o content_parts[2]))

\* An except branch that drops str(e): the variant C4_SlideFailureIsolated
\* rejects.
FailedSlideNoMessage(slide_structure, slide_index, e) ==
    [slide_number |-> slide_structure.slide_number,
     template_id |-> slide_structure.template_id,
     content_type |-> slide_structure.content_type,
     filled_content |-> EmptyDict,
     elements |-> <<>>,
     narration |-> <<>>,
     estimated_duration |-> slide_structure.estimated_duration,
     position_offset |-> slide_index * (slide_width + slide_spacing),
     status |-> "failed",
     error_message |-> None]

\* the GeneratedSlide of the except branch of _generate_single_slide
FailedSlide(slide_structure, slide_index, e) ==
    [slide_number |-> slide_structure.slide_number,
     template_id |-> slide_structure.template_id,
     content_type |-> slide_structure.content_type,
     filled_content |-> EmptyDict,
     elements |-> <<>>,
     narration |-> <<>>,
     estimated_duration |-> slide_structure.estimated_duration,
     position_offset |-> slide_index * (slide_width + slide_spacing),
     status |-> "failed",
     error_message |-> e]

\* AITutorService._generate_single_slide from the content of
\* _generate_slide_content on: verification, rendering, narration
slide_from_content(slide_structure, slide_index, scenario, content) ==
    LET filled_content == verify_and_add_fallback(content, slide_structure)
        elements == render_slide_elements(slide_structure.template_id, filled_content, scenario)
        narration == generate_slide_narration(filled_content, slide_structure)
    IN  IF scenario.fault \in {"verify", "narrate"}
        THEN FailedSlide(slide_structure, slide_index, FaultMessage(scenario.fault))
        ELSE [slide_number |-> slide_structure.slide_number,
              template_id |-> slide_structure.template_id,
              content_type |-> slide_structure.content_type,
              filled_content |-> filled_content,
              elements |-> elements,
              narration |-> narration,
              estimated_duration |-> slide_structure.estimated_duration,
              position_offset |-> slide_index * (slide_width + slide_spacing),
              status |-> "success",
              error_message |-> None]

\* AITutorService._generate_single_slide
generate_single_slide(slide_structure, slide_index, scenario) ==
    slide_from_content(slide_structure, slide_index, scenario,
                       generate_slide_content(slide_structure, scenario))

\* The collaborator work _generate_single_slide issues for one slide, in
\* order; an exception in verification or narration ends it there.
SlideCalls(scenario) ==
    LET step(op) == [op |-> op, raised |-> scenario.fault = op]
        all == <<step("render_test"), step("fill"), step("verify"), step("render"),
                 step("narrate")>>
    IN  IF scenario.fault = "verify" THEN SubSeq(all, 1, 3) ELSE all


(***************************************************************************)
(* Lesson structure planner (services/lesson_structure_service.py)         *)
(***************************************************************************)
Section(content_type, base_duration, priority) ==
    [content_type |-> content_type, base_duration |-> base_duration,
     priority |-> priority]

\* LessonStructureService.lesson_sections
lesson_sections ==
    << Section("title-objective", 10, 1),
       Section("context-motivation", 15, 1),
       Section("analogy", 20, 2),
       Section("definition", 15, 1),
       Section("step-by-step", 30, 1),
       Section("examples", 25, 1),
       Section("common-mistakes", 15, 2),
       Section("mini-recap", 10, 1),
       Section("things-to-ponder", 10, 2) >>

\* difficulty_multipliers, in tenths
DifficultyMultiplier(difficulty_level) ==
    CASE difficulty_level = "beginner" -> 8
      [] difficulty_level = "advanced" -> 13
      [] OTHER                         -> 10

RECURSIVE FilterSeq(_, _)
FilterSeq(s, keep) ==
    IF s = <<>> THEN <<>>
    ELSE IF Head(s).content_type \in keep
    THEN <<Head(s)>> \o FilterSeq(Tail(s), keep)
    ELSE FilterSeq(Tail(s), keep)

\* the thresholds of _select_sections_for_duration taken inclusively
select_sections_inclusive(target_duration) ==
    IF target_duration <= 90
    THEN FilterSeq(lesson_sections,
                   {"title-objective", "definition", "examples", "mini-recap"})
    ELSE IF target_duration <= 180
    THEN FilterSeq(lesson_sections,
                   {"title-objective", "context-motivation", "definition",
                    "examples", "common-mistakes", "mini-recap"})
    ELSE lesson_sections

\* LessonStructureService._select_sections_for_duration
select_sections_for_duration(target_duration) ==
    IF target_duration < 90
    THEN FilterSeq(lesson_sections,
                   {"title-objective", "definition", "examples", "mini-recap"})
    ELSE IF target_duration < 180
    THEN FilterSeq(lesson_sections,
                   {"title-objective", "context-motivation", "definition",
                    "examples", "common-mistakes", "mini-recap"})
    ELSE lesson_sections

\* The template the catalog offers for a section (select_best_template over
\* the catalog's templates of that category).
TemplateFor(content_type) ==
    CASE content_type = "title-objective"    -> TplFull.id
      [] content_type = "context-motivation" -> TplNarration.id
      [] content_type = "definition"         -> TplNoContentFallback.id
      [] content_type = "examples"           -> TplUnprompted.id
      [] content_type = "common-mistakes"    -> TplNoFallback.id
      [] content_type = "mini-recap"         -> TplNarration.id
      [] OTHER                               -> TplFull.id

\* duration_scale applied to one section (lines 298, 302): base durations are
\* in tenths of a second (base_duration * multiplier), the result is in ms,
\* base * (target / total_base), floored to the millisecond.
scaled_by_plain_total(base_duration, target_duration, total_base_duration) ==
    (base_duration * target_duration * 1000) \div 600
base_duration_only(base_duration, target_duration, total_base_duration) ==
    base_duration * 100
scaled_duration(base_duration, target_duration, total_base_duration) ==
    IF total_base_duration > 0
    THEN (base_duration * target_duration * 1000) \div total_base_duration
    ELSE base_duration * 100

\* max(8.0, scaled_duration) of line 319, in ms
unfloored_duration(scaled) == scaled
minimum_duration(scaled) == Max(8000, scaled)

\* LessonStructureService._generate_slide_structures
generate_slide_structures(difficulty_level, target_duration, selected_sections) ==
    LET difficulty_multiplier == DifficultyMultiplier(difficulty_level)
        base_duration(section) == section.base_duration * difficulty_multiplier
        total_base_duration ==
            SumSeq([k \in 1..Len(selected_sections) |-> base_duration(selected_sections[k])])
    IN  [i \in 1..Len(selected_sections) |->
            [slide_number |-> i,
             template_id |-> TemplateFor(selected_sections[i].content_type),
             content_type |-> selected_sections[i].content_type,
             estimated_duration |->
                 minimum_duration(scaled_duration(base_duration(selected_sections[i]),
                                                  target_duration, total_base_duration)),
             priority |-> selected_sections[i].priority]]

\* LessonStructureService.analyze_topic_structure: total_slides is
\* len(slides)
analyze_topic_structure(difficulty_level, target_duration) ==
    generate_slide_structures(difficulty_level, target_duration,
                              select_sections_for_duration(target_duration))


(***************************************************************************)
(* AITutorService.generate_ai_tutor_lesson and its callers                 *)
(***************************************************************************)
crossfade_duration == 1500

NoResult == [slide_number |-> 0]
NoLesson == [total_slides |-> -1]
NoAudio == [status |-> None]
NoResponse == [http |-> 0]
NoOutput == [op |-> None]
NoLessonDoc == [slides |-> <<>>, audio_segments |-> <<>>, audio_duration |-> 0,
                audio_generated |-> FALSE, merged_audio_url |-> None]
NoAsset == [exported |-> FALSE, length_ms |-> 0]
NoMergeCall == [outcome |-> None, paths |-> <<>>]
NoFile == [exists |-> FALSE, data |-> <<>>]
NoEstimate == [called |-> FALSE, voice |-> None, text |-> <<>>, seconds |-> 0]
NoMerge == [raised |-> FALSE, msg |-> None, value |-> <<>>]
NoFlags == [finalize |-> None, lesson_router |-> None, ai_tutor_router |-> None]
NoPlan == [kind |-> None]
NoCall == [op |-> None]
NoPass == [once |-> <<>>, twice |-> <<>>, done |-> FALSE]

\* AITutorService._progress_update with progress = pnum / pden, and the
\* slide_result yielded beside it
Progress(kind, slide, pnum, pden, total_slides, result) ==
    [status |-> "generating", kind |-> kind, slide |-> slide,
     pnum |-> pnum, pden |-> pden,
     total_slides |-> total_slides, result |-> result]

\* the dict yielded by the except branch of generate_ai_tutor_lesson
ErrorEvent ==
    [status |-> "error", kind |-> "error", slide |-> 0, pnum |-> 0, pden |-> 1,
     total_slides |-> 0, result |-> NoResult]

\* progress = (i + 1) / total_slides, i the 0-based loop index
LoopProgressNum(i) == i + 1

RECURSIVE UnifiedSegments(_, _)
\* the loop of _generate_unified_audio from current_time on
UnifiedSegments(slides, current_time) ==
    IF slides = <<>> THEN <<>>
    ELSE LET slide == Head(slides)
         IN  IF slide.narration # <<>>
             THEN <<[slide_number |-> slide.slide_number,
                     start_time |-> current_time,
                     duration |-> slide.estimated_duration,
                     end_time |-> current_time + slide.estimated_duration]>>
                  \o UnifiedSegments(Tail(slides),
                         current_time + slide.estimated_duration - crossfade_duration)
             ELSE UnifiedSegments(Tail(slides), current_time)

\* AITutorService._generate_unified_audio
generate_unified_audio(slides) ==
    LET audio_segments == UnifiedSegments(slides, 0)
    IN  [total_duration |-> IF audio_segments # <<>>
                            THEN audio_segments[Len(audio_segments)].end_time ELSE 0,
         segments |-> audio_segments,
         status |-> "generated"]

SuccessfulSlides(slides) ==
    Cardinality({k \in 1..Len(slides) : slides[k].status = "success"})

\* _finalize_lesson: successful_slides >= len(slides) * 0.8
finalize_success(slides) ==
    SuccessfulSlides(slides) * 10 >= Len(slides) * 8

\* routers/lesson.py: ... >= len(slides) * 0.8 if slides else False
lesson_router_success(slides) ==
    IF slides # <<>> THEN SuccessfulSlides(slides) * 10 >= Len(slides) * 8 ELSE FALSE

\* routers/ai_tutor.py: LessonResponse(success=True, ...)
ai_tutor_router_success(slides) == TRUE

\* AITutorService._finalize_lesson
finalize_lesson(slides, audio) ==
    [slides |-> slides,
     total_slides |-> Len(slides),
     estimated_total_duration |-> audio.total_duration,
     audio_segments |-> audio.segments,
     canvas_states |-> Cardinality({k \in 1..Len(slides) : slides[k].elements # <<>>}),
     successful_slides |-> SuccessfulSlides(slides),
     success |-> finalize_success(slides)]

Callers == {"ai_tutor_router", "lesson_router"}

\* The generation requests explored: a short lesson, which the planner turns
\* into its four core sections.
Requests == {[target |-> 75, difficulty |-> "beginner"]}

GoodText == <<"word", " ", "word", " ", "word">>

\* What one slide of a lesson run meets: the LLM answers every prompt or
\* fails every prompt, and at most one step raises.
OrchScenarios ==
    {[llm |-> <<LlmText(GoodText), LlmText(GoodText), LlmText(GoodText)>>, fault |-> f] :
        f \in Faults}
    \cup {[llm |-> <<LlmRaise, LlmRaise, LlmRaise>>, fault |-> "none"]}

total_slides == Len(lesson_structure)

\* A loop that leaves one iteration early: the variant C1_EventOrder rejects.
LoopContinuesShort(i, n) == i + 2 < n

\* "for i, slide_structure in enumerate(lesson_structure.slides)": after
\* iteration i (0-based) of n, is there another one
LoopContinues(i, n) == i + 1 < n

\* A generator that runs ahead of its consumer: the variant C3_PullDriven
\* rejects.
GeneratorRunsEager(consumer_state) == TRUE

\* An async generator runs only while its consumer awaits the next item.
GeneratorRuns(consumer_state) == consumer_state = "consuming"

\* "if progress_update.get('progress', 0) >= 1.0: ... break" of
\* routers/ai_tutor.py; routers/lesson.py reads the stream to its end
Breaks(who, ev) == who = "ai_tutor_router" /\ ev.pnum >= ev.pden

\* One yield: the event reaches the caller, whose loop body runs on it.
Yield(ev) ==
    /\ events' = Append(events, ev)
    /\ router_slides' = IF ev.result # NoResult
                        THEN Append(router_slides, ev.result) ELSE router_slides
    /\ consumer' = IF Breaks(caller, ev) THEN "finished" ELSE consumer

Call(steps, slide) ==
    calls' = calls \o [k \in 1..Len(steps) |->
                          [op |-> steps[k].op, raised |-> steps[k].raised,
                           slide |-> slide, at |-> Len(events)]]

slideIdle ==
    /\ slide_in = <<>>
    /\ slide_out = NoOutput
flagIdle ==
    /\ status_list = <<>>
    /\ flags = NoFlags
mergeIdle ==
    /\ merge_in = <<>>
    /\ merge_pc = "idle"
    /\ merge_i = 0
    /\ current_time_ms = 0
    /\ merged_len_ms = 0
    /\ updated_segments = <<>>
    /\ merge_out = NoMerge
audioIdle ==
    /\ lesson = NoLessonDoc
    /\ audio_pc = "idle"
    /\ lesson_audio_segments = <<>>
    /\ individual_audio_ids = <<>>
    /\ lesson_current_time = 0
    /\ clip_files = EmptyDict
    /\ deleted_clips = {}
    /\ merged_asset = NoAsset
    /\ merge_call = NoMergeCall
    /\ total_duration = 0
    /\ merged_audio_url = None
calIdle ==
    /\ voice_calibrations = EmptyDict
    /\ calibration_file = NoFile
    /\ tasks = <<>>
    /\ measurements = EmptyDict
    /\ initial_calibrations = EmptyDict
    /\ estimate = NoEstimate
    /\ clock = 0
planIdle ==
    /\ plan_in = NoPlan
    /\ plan_out = NoPlan
cacheIdle ==
    /\ templates_cache = EmptyDict
    /\ cache_out = NoCall
sanIdle ==
    /\ sanitize_in = <<>>
    /\ sanitize_out = NoPass
NoEntry == [kind |-> None]
entryIdle ==
    /\ entry_in = NoEntry
    /\ entry_out = NoEntry
engineIdle ==
    /\ engine_in = NoCall
    /\ engine_out = NoCall
raceIdle ==
    /\ race_pc = <<>>
    /\ cache_dir = <<>>
    /\ removed_clips = <<>>
    /\ recorded_ids = <<>>
    /\ merge_read = <<>>
    /\ lesson_doc = NoCall
streamIdle ==
    /\ stream_pc = "idle"
    /\ generation_tasks = <<>>
    /\ pending_results = <<>>
    /\ yielded = <<>>
moreIdle == entryIdle /\ engineIdle /\ raceIdle /\ streamIdle
laterIdle == planIdle /\ cacheIdle /\ sanIdle /\ moreIdle
orchIdle ==
    /\ request = <<>>
    /\ caller = None
    /\ consumer = "idle"
    /\ pc = "idle"
    /\ idx = 0
    /\ lesson_structure = <<>>
    /\ generated_slides = <<>>
    /\ events = <<>>
    /\ calls = <<>>
    /\ audio_result = NoAudio
    /\ final_lesson = NoLesson
    /\ router_slides = <<>>
    /\ response = NoResponse

earlierVars == <<orchVars, slideVars, flagVars, mergeVars, audioVars, calVars,
                 planVars, cacheVars, sanVars>>
earlierIdle ==
    /\ orchIdle /\ slideIdle /\ flagIdle /\ mergeIdle /\ audioIdle /\ calIdle
    /\ planIdle /\ cacheIdle /\ sanIdle
Init ==
    /\ request \in Requests
    /\ caller \in Callers
    /\ consumer = "consuming"
    /\ pc = "created"
    /\ idx = 0
    /\ lesson_structure = <<>>
    /\ generated_slides = <<>>
    /\ events = <<>>
    /\ calls = <<>>
    /\ audio_result = NoAudio
    /\ final_lesson = NoLesson
    /\ router_slides = <<>>
    /\ response = NoResponse
    /\ slideIdle /\ flagIdle /\ mergeIdle /\ audioIdle /\ calIdle /\ laterIdle

others == <<slideVars, flagVars, mergeVars, audioVars, calVars, laterVars>>

\* first pull: "Analyzing lesson structure..." at progress 0
StartGeneration ==
    /\ GeneratorRuns(consumer) /\ pc = "created"
    /\ Yield(Progress("planning", 0, 0, 1, 1, NoResult))
    /\ pc' = "planning"
    /\ UNCHANGED <<request, caller, idx, lesson_structure, generated_slides, calls,
                   audio_result, final_lesson, response, others>>

\* the planner returns, the loop is entered and slide 1 is announced
PlanLesson ==
    /\ GeneratorRuns(consumer) /\ pc = "planning"
    /\ lesson_structure' = analyze_topic_structure(request.difficulty, request.target)
    /\ Call(<<[op |-> "plan", raised |-> FALSE]>>, 0)
    /\ idx' = 0
    /\ Yield(Progress("slide_start", 1, LoopProgressNum(0), Len(lesson_structure'),
                      Len(lesson_structure'), NoResult))
    /\ pc' = "slide_start"
    /\ UNCHANGED <<request, caller, generated_slides, audio_result, final_lesson,
                   response, others>>

\* the planner raises: the except branch yields the error event
PlanFails ==
    /\ GeneratorRuns(consumer) /\ pc = "planning"
    /\ Call(<<[op |-> "plan", raised |-> TRUE]>>, 0)
    /\ Yield(ErrorEvent)
    /\ pc' = "error"
    /\ UNCHANGED <<request, caller, idx, lesson_structure, generated_slides,
                   audio_result, final_lesson, response, others>>

\* _generate_single_slide for slide idx + 1, then "Completed slide ..."
GenerateSlide ==
    /\ GeneratorRuns(consumer) /\ pc = "slide_start"
    /\ \E scenario \in OrchScenarios :
          LET slide_result == generate_single_slide(lesson_structure[idx + 1], idx, scenario)
          IN  /\ generated_slides' = Append(generated_slides, slide_result)
              /\ Call(SlideCalls(scenario), idx + 1)
              /\ Yield(Progress("slide_complete", idx + 1, LoopProgressNum(idx),
                                total_slides, total_slides, slide_result))
    /\ pc' = "slide_complete"
    /\ UNCHANGED <<request, caller, idx, lesson_structure, audio_result, final_lesson,
                   response, others>>

\* next loop iteration: "Generating slide ..."
AnnounceSlide ==
    /\ GeneratorRuns(consumer) /\ pc = "slide_complete" /\ LoopContinues(idx, total_slides)
    /\ idx' = idx + 1
    /\ Yield(Progress("slide_start", idx + 2, LoopProgressNum(idx + 1), total_slides,
                      total_slides, NoResult))
    /\ pc' = "slide_start"
    /\ UNCHANGED <<request, caller, lesson_structure, generated_slides, calls,
                   audio_result, final_lesson, response, others>>

\* loop exhausted: "Creating unified audio..." at progress 0.9
AnnounceAudio ==
    /\ GeneratorRuns(consumer) /\ pc = "slide_complete" /\ ~LoopContinues(idx, total_slides)
    /\ Yield(Progress("merging", 0, 9, 10, total_slides, NoResult))
    /\ pc' = "merging"
    /\ UNCHANGED <<request, caller, idx, lesson_structure, generated_slides, calls,
                   audio_result, final_lesson, response, others>>

\* _generate_unified_audio, then "Finalizing lesson..." at progress 0.95
UnifiedAudio ==
    /\ GeneratorRuns(consumer) /\ pc = "merging"
    /\ audio_result' = generate_unified_audio(generated_slides)
    /\ Yield(Progress("finalizing", 0, 95, 100, total_slides, NoResult))
    /\ pc' = "finalizing"
    /\ UNCHANGED <<request, caller, idx, lesson_structure, generated_slides, calls,
                   final_lesson, response, others>>

\* _finalize_lesson, then "Lesson generation complete!" at progress 1.0;
\* the yielded tuple is (progress_update, None)
FinalizeLesson ==
    /\ GeneratorRuns(consumer) /\ pc = "finalizing"
    /\ final_lesson' = finalize_lesson(generated_slides, audio_result)
    /\ Yield(Progress("done", 0, 1, 1, total_slides, NoResult))
    /\ pc' = "done"
    /\ UNCHANGED <<request, caller, idx, lesson_structure, generated_slides, calls,
                   audio_result, response, others>>

\* the generator returns after its last yield; the caller's loop ends
Return ==
    /\ GeneratorRuns(consumer) /\ pc \in {"done", "error"}
    /\ pc' = "closed"
    /\ consumer' = "finished"
    /\ UNCHANGED <<request, caller, idx, lesson_structure, generated_slides, events,
                   calls, audio_result, final_lesson, router_slides, response, others>>

\* the caller stops consuming: its request is cancelled between two items
StopConsuming ==
    /\ consumer = "consuming" /\ pc \notin {"created", "closed"}
    /\ consumer' = "stopped"
    /\ UNCHANGED <<request, caller, pc, idx, lesson_structure, generated_slides,
                   events, calls, audio_result, final_lesson, router_slides,
                   response, others>>

\* routers/ai_tutor.py after its loop
AiTutorRouterResponse(slides) ==
    IF slides = <<>>
    THEN [http |-> 500, success |-> FALSE, total_slides |-> 0, slides |-> <<>>]
    ELSE [http |-> 200, success |-> ai_tutor_router_success(slides),
          total_slides |-> Len(slides), slides |-> slides]

\* routers/lesson.py after its loop
LessonRouterResponse(slides) ==
    [http |-> 200, success |-> lesson_router_success(slides),
     total_slides |-> Len(slides), slides |-> slides]

\* the caller builds its HTTP response from what it collected
Respond ==
    /\ consumer = "finished" /\ response = NoResponse
    /\ response' = IF caller = "ai_tutor_router"
                   THEN AiTutorRouterResponse(router_slides)
                   ELSE LessonRouterResponse(router_slides)
    /\ UNCHANGED <<request, caller, consumer, pc, idx, lesson_structure,
                   generated_slides, events, calls, audio_result, final_lesson,
                   router_slides, others>>

Next ==
    \/ StartGeneration
    \/ PlanLesson
    \/ PlanFails
    \/ GenerateSlide
    \/ AnnounceSlide
    \/ AnnounceAudio
    \/ UnifiedAudio
    \/ FinalizeLesson
    \/ Return
    \/ StopConsuming
    \/ Respond

Spec == Init /\ [][Next]_vars

\* The generator is resumed as long as its consumer keeps awaiting it.
FairSpec == Spec /\ WF_vars(Next)

-----------------------------------------------------------------------------
\* Properties of the event stream of generate_ai_tutor_lesson (Spec)

HasError == events # <<>> /\ events[Len(events)].kind = "error"

\* the events yielded before the error event, if there is one
Body == IF HasError THEN SubSeq(events, 1, Len(events) - 1) ELSE events

\* The k-th event of a run over n slides that meets no error: its stage and
\* the slide it is about.
Canonical(k, n) ==
    CASE k = 1 -> [kind |-> "planning", slide |-> 0]
      [] k >= 2 /\ k <= 2 * n + 1 ->
            [kind |-> IF k % 2 = 0 THEN "slide_start" ELSE "slide_complete",
             slide |-> k \div 2]
      [] k = 2 * n + 2 -> [kind |-> "merging", slide |-> 0]
      [] k = 2 * n + 3 -> [kind |-> "finalizing", slide |-> 0]
      [] k = 2 * n + 4 -> [kind |-> "done", slide |-> 0]
      [] OTHER -> [kind |-> "none", slide |-> 0]

\* C1: in every run the yielded events are Planning, then for each slide
\* i = 1..N in order the start event of slide i followed by the completion
\* event of slide i carrying the result of slide i, then MergingAudio,
\* Finalizing, Done; no stage is skipped, repeated or reordered, and an
\* error event is the last event of its run.
C1_EventOrder ==
    /\ \A k \in 1..Len(Body) :
          /\ Body[k].kind # "error"
          /\ [kind |-> Body[k].kind, slide |-> Body[k].slide] = Canonical(k, total_slides)
          /\ IF Body[k].kind = "slide_complete"
             THEN /\ Body[k].result # NoResult
                  /\ Body[k].result.slide_number = Body[k].slide
                  /\ Body[k].result = generated_slides[Body[k].slide]
             ELSE Body[k].result = NoResult
    /\ (pc = "closed" /\ ~HasError) => Len(events) = 2 * total_slides + 4

\* a whole run was consumed: every slide announced and completed, then the
\* three closing stages
C1_Witness ==
    /\ pc = "closed" /\ ~HasError
    /\ total_slides >= 2
    /\ events[Len(events)].kind = "done"
    /\ events[2 * total_slides + 1].result.slide_number = total_slides

\* C2: no event whose progress is 1.0 or more comes before the completion
\* event of the last slide, so a caller that reads until progress reaches 1.0
\* holds all N slide results.
C2_ProgressAfterLastSlide ==
    \A k \in 1..Len(events) :
        (events[k].status = "generating" /\ events[k].pnum >= events[k].pden)
            => \E j \in 1..(k - 1) :
                  /\ events[j].kind = "slide_complete"
                  /\ events[j].slide = total_slides

\* the start event of the last slide already reports progress N / N
C2_Reached ==
    /\ pc = "slide_start" /\ idx + 1 = total_slides
    /\ events[Len(events)].pnum >= events[Len(events)].pden

\* C3: slides are produced one at a time and only on demand: every
\* collaborator call for slide i + 1 is made after the completion event of
\* slide i was handed to the caller, and once the caller stops reading no
\* further call is made and no further event is produced.
C3_CallsFollowCompletion ==
    \A c \in 1..Len(calls) :
        calls[c].slide >= 2
            => \E k \in 1..calls[c].at :
                  /\ events[k].kind = "slide_complete"
                  /\ events[k].slide = calls[c].slide - 1
                  /\ events[k].result = generated_slides[calls[c].slide - 1]

C3_PullDriven ==
    /\ []C3_CallsFollowCompletion
    /\ [][consumer # "consuming" => (calls' = calls /\ events' = events
                                     /\ generated_slides' = generated_slides)]_vars

\* the caller stopped between two slides, the later slides still to come
C3_Witness ==
    /\ consumer = "stopped" /\ pc = "slide_complete"
    /\ idx + 1 < total_slides
    /\ \E c \in 1..Len(calls) : calls[c].slide = idx + 1

\* the steps of slide i that raised
RaisedSteps(i) ==
    {calls[c].op : c \in {d \in 1..Len(calls) : calls[d].slide = i /\ calls[d].raised}}

SlideFailed(i) ==
    /\ generated_slides[i].status = "failed"
    /\ generated_slides[i].error_message # None
    /\ generated_slides[i].error_message # ""

C4_Absorbed ==
    \E i \in 1..Len(generated_slides) :
        "fill" \in RaisedSteps(i) /\ generated_slides[i].status = "success"

\* C5: a run that ends has handed its caller either the complete
\* AITutorLesson or an error event.
C5_YieldsLessonOrError ==
    pc = "closed"
        => \E k \in 1..Len(events) :
              \/ events[k].kind = "error"
              \/ (final_lesson # NoLesson /\ events[k].result = final_lesson)

\* the run ended after Done, the lesson built and kept inside the generator
C5_Reached ==
    /\ pc = "closed" /\ ~HasError
    /\ final_lesson # NoLesson
    /\ events[Len(events)].result = NoResult

(***************************************************************************)
(* SpecSlide: the Filler and _generate_single_slide on one slide, over     *)
(* every template of the catalog and every behaviour of the LLM.           *)
(***************************************************************************)
ShortText == <<"ab">>
BlankText == <<" ">>
MarkerText == <<"*", "*">>
PlaceholderText == <<"{{", "word", " ", "word", " ", "word">>
OffTopicText == <<"dna", " ", "recipe", " ", "word", " ", "word">>

\* what one LLM call can do
LlmOutcomes ==
    {LlmRaise, LlmNone, LlmText(BlankText), LlmText(GoodText), LlmText(ShortText),
     LlmText(MarkerText), LlmText(PlaceholderText), LlmText(OffTopicText)}

\* the LLM's behaviour on the successive calls of one fill
LlmBehaviours == [1..(max_retries + 1) -> LlmOutcomes]

TemplateIds == {t.id : t \in Catalog} \cup {"tpl-missing"}

\* container widths on both sides of the mobile breakpoint
Widths == {375, 1200}

\* the fields the planner writes prompts for
ContentPrompts == {"heading", "content"}

SlideStructureFor(template_id) ==
    [slide_number |-> 1, template_id |-> template_id, content_type |-> "definition",
     estimated_duration |-> 15000, priority |-> 1]

InitSlide ==
    /\ slide_in \in [template_id : TemplateIds, llm : LlmBehaviours]
    /\ slide_out = NoOutput
    /\ orchIdle /\ flagIdle /\ mergeIdle /\ audioIdle /\ calIdle /\ laterIdle

\* fill_template on the template, at some container width
RunFillTemplate ==
    /\ get_template(slide_in.template_id) # NoTemplate
    /\ \E width \in Widths :
          slide_out' = [op |-> "fill_template", width |-> width, fault |-> "none",
                        result |-> fill_template(get_template(slide_in.template_id),
                                                 slide_in.llm, 0, width)]
    /\ UNCHANGED <<slide_in, orchVars, flagVars, mergeVars, audioVars, calVars, laterVars>>

\* fill_template_with_prompts on the template, at some container width
RunFillTemplateWithPrompts ==
    /\ get_template(slide_in.template_id) # NoTemplate
    /\ \E width \in Widths :
          slide_out' = [op |-> "fill_template_with_prompts", width |-> width,
                        fault |-> "none",
                        result |-> fill_template_with_prompts(
                                       get_template(slide_in.template_id),
                                       ContentPrompts, slide_in.llm, 0, width)]
    /\ UNCHANGED <<slide_in, orchVars, flagVars, mergeVars, audioVars, calVars, laterVars>>

\* _call_llm_with_retry on one field, with the constraints of the template
RunCallLlmWithRetry ==
    /\ get_template(slide_in.template_id) # NoTemplate
    /\ \E width \in Widths, field_name \in ContentPrompts \cup {"objective"} :
          slide_out' = [op |-> "call_llm_with_retry", width |-> width,
                        fault |-> "none", field_name |-> field_name,
                        result |-> RetryRun(0, slide_in.llm,
                                       Get(get_responsive_constraints(
                                               get_template(slide_in.template_id), width),
                                           field_name, TextCfg),
                                       field_name, <<>>)]
    /\ UNCHANGED <<slide_in, orchVars, flagVars, mergeVars, audioVars, calVars, laterVars>>

\* _generate_single_slide on a slide structure naming the template, with at
\* most one step raising
RunGenerateSingleSlide ==
    /\ \E fault \in Faults :
          slide_out' = [op |-> "generate_single_slide", width |-> slide_width,
                        fault |-> fault,
                        result |-> generate_single_slide(
                                       SlideStructureFor(slide_in.template_id), 0,
                                       [llm |-> slide_in.llm, fault |-> fault])]
    /\ UNCHANGED <<slide_in, orchVars, flagVars, mergeVars, audioVars, calVars, laterVars>>

NextSlide ==
    \/ RunFillTemplate \/ RunFillTemplateWithPrompts \/ RunCallLlmWithRetry
    \/ RunGenerateSingleSlide

SpecSlide == InitSlide /\ [][NextSlide]_vars

-----------------------------------------------------------------------------
\* Properties of the Filler and of one slide (SpecSlide)

\* the LLM call throws, times out (no answer), or answers with nothing
Failing(outcome) ==
    outcome.kind \in {"raise", "none"} \/ Strip(outcome.text) = <<>>

\* the placeholders of the template that have an LLM prompt, in fill order
PromptedPlaceholders(template) ==
    SelectSeq(template.placeholders, LAMBDA key : key \in template.llmPrompts)

RequiredFields == {"heading", "content"}

\* C7: with the LLM failing on every call, every GeneratedSlide has a
\* non-empty heading and a non-empty content in filled_content, whatever the
\* template and whether the slide succeeded or failed.
C7_RequiredFieldsNonEmpty ==
    (/\ slide_out.op = "generate_single_slide"
     /\ \A k \in DOMAIN slide_in.llm : Failing(slide_in.llm[k]))
        => \A f \in RequiredFields :
              /\ f \in DOMAIN slide_out.result.filled_content
              /\ slide_out.result.filled_content[f] # <<>>

\* a successful slide of the template whose fallbackData has no content key,
\* produced with the LLM down
C7_Reached ==
    /\ slide_out.op = "generate_single_slide"
    /\ slide_in.template_id = TplNoContentFallback.id
    /\ \A k \in DOMAIN slide_in.llm : slide_in.llm[k] = LlmRaise
    /\ slide_out.result.status = "success"
    /\ "content" \notin DOMAIN slide_out.result.filled_content

\* the fallbackData of the slide, the static content of a whole-template
\* fallback
StaticFallback(template_id, key) ==
    Get(get_template(template_id).fallbackData, key, <<"[No content generated]">>)

\* the placeholders the fill asked the LLM for
Prompted(op, template_id) ==
    IF op = "fill_template" THEN get_template(template_id).llmPrompts
    ELSE ContentPrompts

\* C8: every value a fill returns for a prompted placeholder either passes
\* the quality gate or is static fallback content, on fill_template and on
\* fill_template_with_prompts alike.
C8_GatedOrFallback ==
    (/\ slide_out.op \in {"fill_template", "fill_template_with_prompts"}
     /\ ~slide_out.result.raised)
        => LET filled_content == slide_out.result.value.filled_content
           IN  \A key \in DOMAIN filled_content \cap Prompted(slide_out.op, slide_in.template_id) :
                  \/ is_content_acceptable(filled_content[key], key)
                  \/ filled_content[key] = FillerFallback(key)
                  \/ (/\ slide_out.result.value.is_fallback
                      /\ filled_content[key] = StaticFallback(slide_in.template_id, key))

\* fill_template returned a two-character heading the gate rejects
C8_Reached ==
    /\ slide_out.op = "fill_template"
    /\ ~slide_out.result.raised
    /\ ~slide_out.result.value.is_fallback
    /\ slide_out.result.value.filled_content["heading"] = ShortText
    /\ ~is_content_acceptable(ShortText, "heading")

\* some LLM call the fill makes fails
SomeCallFails(template, outcomes) ==
    \E k \in 1..Len(PromptedPlaceholders(template)) : Failing(outcomes[k])

\* the sanitized texts the LLM produced in this fill
LlmTexts(outcomes) ==
    {sanitize_llm_output(Strip(outcomes[k].text)) :
        k \in {j \in DOMAIN outcomes : ~Failing(outcomes[j])}}

\* C9: when the LLM throws or answers with nothing for any placeholder during
\* fill_template, the returned filled_content is the slide's fallbackData,
\* is_fallback is true, and no LLM text of an earlier placeholder is in it.
C9_WholeFallback ==
    (/\ slide_out.op = "fill_template"
     /\ ~slide_out.result.raised
     /\ SomeCallFails(get_template(slide_in.template_id), slide_in.llm))
        => LET template == get_template(slide_in.template_id)
               filled == slide_out.result.value
           IN  /\ filled.filled_content = template.fallbackData
               /\ filled.is_fallback
               /\ filled.generation_method = "fallback"
               /\ \A key \in DOMAIN filled.filled_content :
                     filled.filled_content[key] \notin LlmTexts(slide_in.llm)

\* the first placeholder got good text, the second call failed, and the fill
\* came back as the fallbackData
C9_Witness ==
    /\ slide_out.op = "fill_template"
    /\ slide_in.template_id = TplFull.id
    /\ slide_in.llm[1] = LlmText(GoodText)
    /\ slide_in.llm[2] = LlmNone
    /\ ~slide_out.result.raised
    /\ slide_out.result.value.is_fallback
    /\ slide_out.result.value.filled_content = FullFallback

(***************************************************************************)
(* SpecSuccess: the lesson-level success flag as each of its three         *)
(* reporters computes it from one list of slide results.                   *)
(***************************************************************************)
MaxSlides == 5

Flag(b) == IF b THEN "true" ELSE "false"

SlideWithStatus(status) == [status |-> status]

InitSuccess ==
    /\ status_list \in SeqsUpTo({SlideWithStatus("success"), SlideWithStatus("failed")},
                                MaxSlides)
    /\ flags = NoFlags
    /\ orchIdle /\ slideIdle /\ mergeIdle /\ audioIdle /\ calIdle /\ laterIdle

\* AITutorService._finalize_lesson builds the lesson
ReportFinalize ==
    /\ flags.finalize = None
    /\ flags' = [flags EXCEPT !.finalize = Flag(finalize_success(status_list))]
    /\ UNCHANGED <<status_list, orchVars, slideVars, mergeVars, audioVars, calVars, laterVars>>

\* POST /ai-tutor/generate of routers/lesson.py answers
ReportLessonRouter ==
    /\ flags.lesson_router = None
    /\ flags' = [flags EXCEPT
                    !.lesson_router = Flag(LessonRouterResponse(status_list).success)]
    /\ UNCHANGED <<status_list, orchVars, slideVars, mergeVars, audioVars, calVars, laterVars>>

\* POST /ai-tutor/generate of routers/ai_tutor.py answers; with no slide it
\* answers 500 and reports no flag
ReportAiTutorRouter ==
    /\ flags.ai_tutor_router = None
    /\ LET resp == AiTutorRouterResponse(status_list)
       IN  flags' = [flags EXCEPT
                        !.ai_tutor_router = IF resp.http = 200 THEN Flag(resp.success)
                                            ELSE "http500"]
    /\ UNCHANGED <<status_list, orchVars, slideVars, mergeVars, audioVars, calVars, laterVars>>

NextSuccess == ReportFinalize \/ ReportLessonRouter \/ ReportAiTutorRouter

SpecSuccess == InitSuccess /\ [][NextSuccess]_vars

\* at least 80% of the slides of the list have status success
AtLeast80Percent(slides) ==
    Cardinality({k \in 1..Len(slides) : slides[k].status = "success"}) * 5
        >= Len(slides) * 4

\* C6: for every list of slide results, the empty one included, each of
\* _finalize_lesson and the two generate endpoints reports success = true
\* exactly when at least 80% of the slides succeeded, so the three agree.
C6_SuccessThreshold ==
    \A reporter \in DOMAIN flags :
        flags[reporter] # None => flags[reporter] = Flag(AtLeast80Percent(status_list))

\* one failed slide: _finalize_lesson says false, routers/ai_tutor.py true
C6_Reached ==
    /\ status_list = <<SlideWithStatus("failed")>>
    /\ flags.finalize = "false"
    /\ flags.ai_tutor_router = "true"

(***************************************************************************)
(* SpecMerge: AudioMerger.merge_audio_files_with_silence                   *)
(* (utils/audio_merger.py), one loop iteration per step.  A clip is its    *)
(* measured length in ms, len(AudioSegment); a segment's times are kept in *)
(* ms, the code's x / 1000.0 being exact on them.                          *)
(***************************************************************************)
MaxClips == 3
pause_duration_ms == 500

\* measured clip lengths and the estimates the caller passes in, in ms
ClipLengths == {1000, 3200, 4800, 5000}
Estimates == {1000, 2500}

MergeInputs ==
    {[clips |-> c, segment_info |-> m, exist |-> e] :
        c \in SeqsUpTo(ClipLengths, MaxClips),
        m \in {[k \in 1..n |-> [slide_number |-> k, duration |-> d]] :
                  n \in 0..MaxClips, d \in Estimates},
        e \in BOOLEAN}

\* A segment_duration_ms taken from the estimate passed in: the variant
\* C10_SilencePaddedTimeline rejects.
segment_duration_estimate(audio_len, segment) == segment.duration

\* segment_duration_ms = len(merged_audio) / len(next_audio)
segment_duration_ms(audio_len, segment) == audio_len

\* A concatenation that leaves the silence out: the variant
\* C13_TotalDuration rejects.
AppendWithoutSilence(merged_len, next_len) == merged_len + next_len

\* len(merged_audio + silence + next_audio_faded); a fade keeps the length
AppendWithSilence(merged_len, next_len) == merged_len + pause_duration_ms + next_len

\* segment.copy() updated with start_time, duration and end_time
UpdatedSegment(segment, start_ms, duration_ms) ==
    [slide_number |-> segment.slide_number,
     start_time |-> start_ms,
     duration |-> duration_ms,
     end_time |-> start_ms + duration_ms]

InitMerge ==
    /\ merge_in \in MergeInputs
    /\ Len(merge_in.segment_info) <= Len(merge_in.clips)
    /\ merge_pc = "start"
    /\ merge_i = 0
    /\ current_time_ms = 0
    /\ merged_len_ms = 0
    /\ updated_segments = <<>>
    /\ merge_out = NoMerge
    /\ orchIdle /\ slideIdle /\ flagIdle /\ audioIdle /\ calIdle /\ laterIdle

\* no path given, or a path that does not exist
MergeRejects ==
    /\ merge_pc = "start"
    /\ merge_in.clips = <<>> \/ ~merge_in.exist
    /\ merge_out' = IF merge_in.clips = <<>>
                    THEN Raised("No audio files provided for merging")
                    ELSE Raised("Audio file not found")
    /\ merge_pc' = "raised"
    /\ UNCHANGED <<merge_in, merge_i, current_time_ms, merged_len_ms, updated_segments,
                   orchVars, slideVars, flagVars, audioVars, calVars, laterVars>>

\* the first clip is loaded and its segment, if there is one, is timed
MergeFirst ==
    /\ merge_pc = "start"
    /\ merge_in.clips # <<>> /\ merge_in.exist
    /\ merged_len_ms' = merge_in.clips[1]
    /\ IF Len(merge_in.segment_info) > 0
       THEN LET d == segment_duration_ms(merge_in.clips[1], merge_in.segment_info[1])
            IN  /\ updated_segments' = <<UpdatedSegment(merge_in.segment_info[1], 0, d)>>
                /\ current_time_ms' = d
       ELSE UNCHANGED <<updated_segments, current_time_ms>>
    /\ merge_i' = 1
    /\ merge_pc' = "loop"
    /\ UNCHANGED <<merge_in, merge_out, orchVars, slideVars, flagVars, audioVars, calVars, laterVars>>

\* one iteration of "for i, audio_path in enumerate(audio_file_paths[1:], 1)"
MergeNext ==
    /\ merge_pc = "loop" /\ merge_i < Len(merge_in.clips)
    /\ LET next_len == merge_in.clips[merge_i + 1]
           start_ms == current_time_ms + pause_duration_ms
       IN  /\ merged_len_ms' = AppendWithSilence(merged_len_ms, next_len)
           /\ IF merge_i < Len(merge_in.segment_info)
              THEN LET d == segment_duration_ms(next_len, merge_in.segment_info[merge_i + 1])
                   IN  /\ updated_segments' =
                              Append(updated_segments,
                                     UpdatedSegment(merge_in.segment_info[merge_i + 1],
                                                    start_ms, d))
                       /\ current_time_ms' = start_ms + d
              ELSE /\ updated_segments' = updated_segments
                   /\ current_time_ms' = start_ms
    /\ merge_i' = merge_i + 1
    /\ UNCHANGED <<merge_in, merge_pc, merge_out, orchVars, slideVars, flagVars, audioVars, calVars, laterVars>>

\* a clip of the loop cannot be decoded: the merge raises
MergeDecodeFails ==
    /\ merge_pc = "loop" /\ merge_i < Len(merge_in.clips)
    /\ merge_out' = Raised("Failed to merge audio files with silence")
    /\ merge_pc' = "raised"
    /\ UNCHANGED <<merge_in, merge_i, current_time_ms, merged_len_ms, updated_segments,
                   orchVars, slideVars, flagVars, audioVars, calVars, laterVars>>

\* export, then return (output_path, total_duration_seconds, updated_segments)
MergeExport ==
    /\ merge_pc = "loop" /\ merge_i = Len(merge_in.clips)
    /\ merge_out' = Returned([total_duration |-> merged_len_ms,
                              segments |-> updated_segments])
    /\ merge_pc' = "done"
    /\ UNCHANGED <<merge_in, merge_i, current_time_ms, merged_len_ms, updated_segments,
                   orchVars, slideVars, flagVars, audioVars, calVars, laterVars>>

NextMerge == MergeRejects \/ MergeFirst \/ MergeNext \/ MergeDecodeFails \/ MergeExport

SpecMerge == InitMerge /\ [][NextMerge]_vars

\* C10: after a silence-padded merge of N >= 1 clips with metadata for each
\* clip, the first segment starts at 0, each segment ends one pad before the
\* next one starts, and each segment's duration is the measured length of
\* its clip, whatever estimate was passed in.
C10_SilencePaddedTimeline ==
    (/\ merge_pc = "done"
     /\ Len(merge_in.segment_info) = Len(merge_in.clips))
        => LET segments == merge_out.value.segments
           IN  /\ Len(segments) = Len(merge_in.clips)
               /\ segments[1].start_time = 0
               /\ \A i \in 1..(Len(segments) - 1) :
                     segments[i].end_time + pause_duration_ms = segments[i + 1].start_time
               /\ \A i \in 1..Len(segments) :
                     /\ segments[i].duration = merge_in.clips[i]
                     /\ segments[i].end_time = segments[i].start_time + segments[i].duration
                     /\ segments[i].slide_number = merge_in.segment_info[i].slide_number

\* three clips merged, every estimate different from the measured length
C10_Witness ==
    /\ merge_pc = "done"
    /\ Len(merge_in.clips) = 3 /\ Len(merge_in.segment_info) = 3
    /\ \A i \in 1..3 : merge_in.segment_info[i].duration # merge_in.clips[i]
    /\ merge_out.value.segments[3].start_time
          = merge_in.clips[1] + merge_in.clips[2] + 2 * pause_duration_ms

\* The properties of a finished merge that C13 states for every N: the
\* returned total is the length of the merged asset, which is the sum of the
\* clip lengths plus N - 1 pads, and it is the end_time of the last segment
\* when every clip came with its metadata.
TotalIsPaddedSum ==
    LET clips == merge_in.clips
        ret == merge_out.value
    IN  /\ ret.total_duration = merged_len_ms
        /\ ret.total_duration = SumSeq(clips) + (Len(clips) - 1) * pause_duration_ms
        /\ Len(merge_in.segment_info) = Len(clips)
              => ret.total_duration = ret.segments[Len(ret.segments)].end_time

MaxLessonSlides == 3

\* Lengths of the clips the TTS service writes.
SpokenLengths == {1000, 3200}

\* slide.estimated_duration
EstimatedDurations == {1000, 2500}

\* slide.narration: missing, whitespace only, or text the TTS can speak
Narrations == {<<>>, <<" ">>, GoodText}

LessonSlide(k, narration, estimated) ==
    [slide_number |-> k, narration |-> narration, estimated_duration |-> estimated]

\* The lessons a request can name: up to MaxLessonSlides slides, none of
\* them with audio yet.
Lessons ==
    {[slides |-> [k \in 1..n |-> LessonSlide(k, nar[k], est[k])],
      audio_segments |-> <<>>, audio_duration |-> 0,
      audio_generated |-> FALSE, merged_audio_url |-> None] :
        n \in 0..MaxLessonSlides,
        nar \in [1..MaxLessonSlides -> Narrations],
        est \in [1..MaxLessonSlides -> EstimatedDurations]}

\* audio_id None
NoAudioId == 0

\* What piper_tts_service does for one narrated slide.  The audio_id of
\* slide k is k (the narrations of a lesson differ, and so do their ids).
\*   measured   : clip written, its length measured
\*   unmeasured : clip written, _measure_audio_duration returns None
\*   missing    : an id is returned but get_audio_file_path finds no file
\*   evicted    : clip written and measured, gone again before the merge
\*   none       : generate_audio returns None
\*   raised     : generate_audio raises
TtsOutcomes ==
    {[kind |-> k, length |-> l] :
        k \in {"measured", "unmeasured", "evicted"}, l \in SpokenLengths}
    \cup {[kind |-> k, length |-> 0] : k \in {"missing", "none", "raised"}}

Segment(slide_number, start, duration, audio_id) ==
    [slide_number |-> slide_number, start_time |-> start, duration |-> duration,
     end_time |-> start + duration, audio_id |-> audio_id]

\* The segment the TTS loop appends for one slide.
SegmentFor(slide, time, outcome) ==
    IF Strip(slide.narration) = <<>> \/ outcome.kind \in {"none", "raised"}
    THEN Segment(slide.slide_number, time, slide.estimated_duration, NoAudioId)
    ELSE IF outcome.kind \in {"measured", "evicted"}
    THEN Segment(slide.slide_number, time, outcome.length, slide.slide_number)
    ELSE Segment(slide.slide_number, time, slide.estimated_duration, slide.slide_number)

\* The segments with an audio_id whose clip is on disk.
SegmentsWithAudio(segments, files) ==
    SelectSeq(segments,
              LAMBDA seg : seg.audio_id # NoAudioId /\ seg.audio_id \in DOMAIN files)

RECURSIVE MergeLoop(_, _, _, _, _, _)
\* The loop of merge_audio_files_with_silence over the clips after the first.
MergeLoop(i, clips, segment_info, time_ms, merged_len, updated) ==
    IF i >= Len(clips)
    THEN [total_duration |-> merged_len, segments |-> updated]
    ELSE LET next_len == clips[i + 1]
             start_ms == time_ms + pause_duration_ms
             longer == AppendWithSilence(merged_len, next_len)
         IN  IF i < Len(segment_info)
             THEN LET duration_ms == segment_duration_ms(next_len, segment_info[i + 1])
                  IN  MergeLoop(i + 1, clips, segment_info, start_ms + duration_ms, longer,
                                Append(updated,
                                       UpdatedSegment(segment_info[i + 1], start_ms,
                                                      duration_ms)))
             ELSE MergeLoop(i + 1, clips, segment_info, start_ms, longer, updated)

\* AudioMerger.merge_audio_files(..., use_silence_padding=True) on clips that
\* exist and decode: what merge_audio_files_with_silence returns.
merge_audio_files(clips, segment_info) ==
    LET first_ms == segment_duration_ms(clips[1], segment_info[1])
    IN  MergeLoop(1, clips, segment_info, first_ms, clips[1],
                  <<UpdatedSegment(segment_info[1], 0, first_ms)>>)

RECURSIVE last_audio_end_time(_, _)
\* for j in range(i - 1, -1, -1): the end_time of the nearest segment before
\* position j + 1 that has an audio_id, 0.0 when there is none
last_audio_end_time(segments, j) ==
    IF j = 0 THEN 0
    ELSE IF segments[j].audio_id # NoAudioId THEN segments[j].end_time
    ELSE last_audio_end_time(segments, j - 1)

RECURSIVE UpdateTiming(_, _, _)
\* The loop that rewrites audio_segments in place after a merge, from
\* position i on: merged segments take the merger's timing, the others are
\* placed at the end of the nearest preceding segment with an audio_id.
UpdateTiming(i, segments, updated) ==
    IF i > Len(segments) THEN segments
    ELSE LET segment == segments[i]
             hits == {u \in 1..Len(updated) :
                         updated[u].slide_number = segment.slide_number}
         IN  IF hits # {}
             THEN LET updated_seg == updated[CHOOSE u \in hits : \A v \in hits : v <= u]
                  IN  UpdateTiming(i + 1,
                          [segments EXCEPT ![i].start_time = updated_seg.start_time,
                                           ![i].duration = updated_seg.duration,
                                           ![i].end_time = updated_seg.end_time],
                          updated)
             ELSE LET anchor == last_audio_end_time(segments, i - 1)
                  IN  UpdateTiming(i + 1,
                          [segments EXCEPT ![i].start_time = anchor,
                                           ![i].end_time = anchor + segment.duration],
                          updated)

\* A clean-up that removes nothing: the variant C15_CleanupAfterMerge rejects.
cleanup_nothing(files, paths) == files

\* AudioMerger.cleanup_individual_files: os.remove for each path
cleanup_individual_files(files, paths) ==
    [a \in DOMAIN files \ {paths[p] : p \in 1..Len(paths)} |-> files[a]]

MergedAudioUrl == "/api/lesson/id/merged-audio"

InitAudio ==
    /\ lesson \in Lessons
    /\ audio_pc = "start"
    /\ lesson_audio_segments = <<>>
    /\ individual_audio_ids = <<>>
    /\ lesson_current_time = 0
    /\ clip_files = EmptyDict
    /\ deleted_clips = {}
    /\ merged_asset = NoAsset
    /\ merge_call = NoMergeCall
    /\ total_duration = 0
    /\ merged_audio_url = None
    /\ orchIdle /\ slideIdle /\ flagIdle /\ mergeIdle /\ calIdle /\ laterIdle

notAudio == <<orchVars, slideVars, flagVars, mergeVars, calVars, laterVars>>

\* Audio already generated: the stored lesson is returned as it is.
ReturnExisting ==
    /\ audio_pc = "start"
    /\ lesson.audio_generated /\ lesson.merged_audio_url # None
    /\ audio_pc' = "returned"
    /\ UNCHANGED <<lesson, lesson_audio_segments, individual_audio_ids,
                   lesson_current_time, clip_files, deleted_clips, merged_asset,
                   merge_call, total_duration, merged_audio_url, notAudio>>

\* HTTP 400: the lesson has no slides
RejectNoSlides ==
    /\ audio_pc = "start"
    /\ ~(lesson.audio_generated /\ lesson.merged_audio_url # None)
    /\ lesson.slides = <<>>
    /\ audio_pc' = "rejected"
    /\ UNCHANGED <<lesson, lesson_audio_segments, individual_audio_ids,
                   lesson_current_time, clip_files, deleted_clips, merged_asset,
                   merge_call, total_duration, merged_audio_url, notAudio>>

StartAudio ==
    /\ audio_pc = "start"
    /\ ~(lesson.audio_generated /\ lesson.merged_audio_url # None)
    /\ lesson.slides # <<>>
    /\ audio_pc' = "tts"
    /\ UNCHANGED <<lesson, lesson_audio_segments, individual_audio_ids,
                   lesson_current_time, clip_files, deleted_clips, merged_asset,
                   merge_call, total_duration, merged_audio_url, notAudio>>

\* One iteration of the TTS loop.
SynthesizeSlide ==
    /\ audio_pc = "tts"
    /\ LET slide == lesson.slides[Len(lesson_audio_segments) + 1]
       IN  \E outcome \in TtsOutcomes :
              LET segment == SegmentFor(slide, lesson_current_time, outcome)
                  narrated == Strip(slide.narration) # <<>>
              IN  /\ ~narrated => outcome.kind = "none"
                  /\ lesson_audio_segments' = Append(lesson_audio_segments, segment)
                  /\ lesson_current_time' = lesson_current_time + segment.duration
                  /\ individual_audio_ids' =
                        IF segment.audio_id # NoAudioId
                        THEN Append(individual_audio_ids, segment.audio_id)
                        ELSE individual_audio_ids
                  /\ clip_files' =
                        IF narrated /\ outcome.kind \in {"measured", "unmeasured"}
                        THEN Put(clip_files, slide.slide_number, outcome.length)
                        ELSE clip_files
                  /\ audio_pc' = IF Len(lesson_audio_segments) + 1 = Len(lesson.slides)
                                 THEN "merge" ELSE "tts"
    /\ UNCHANGED <<lesson, deleted_clips, merged_asset, merge_call, total_duration,
                   merged_audio_url, notAudio>>

\* No audio_id at all, or none of the clips is on disk: no merge is attempted.
SkipMerge ==
    /\ audio_pc = "merge"
    /\ \/ individual_audio_ids = <<>>
       \/ SegmentsWithAudio(lesson_audio_segments, clip_files) = <<>>
    /\ merge_call' = [outcome |-> "skipped", paths |-> <<>>]
    /\ total_duration' = lesson_current_time
    /\ merged_audio_url' = None
    /\ audio_pc' = "persist"
    /\ UNCHANGED <<lesson, lesson_audio_segments, individual_audio_ids,
                   lesson_current_time, clip_files, deleted_clips, merged_asset,
                   notAudio>>

\* merger.merge_audio_files returns: the merged asset is exported.
MergeReturns ==
    /\ audio_pc = "merge"
    /\ individual_audio_ids # <<>>
    /\ LET segments_with_audio == SegmentsWithAudio(lesson_audio_segments, clip_files)
           audio_file_paths == [p \in 1..Len(segments_with_audio) |->
                                   segments_with_audio[p].audio_id]
       IN  /\ audio_file_paths # <<>>
           /\ LET clips == [p \in 1..Len(audio_file_paths) |->
                               clip_files[audio_file_paths[p]]]
                  ret == merge_audio_files(clips, segments_with_audio)
              IN  /\ merged_asset' = [exported |-> TRUE, length_ms |-> ret.total_duration]
                  /\ total_duration' = ret.total_duration
                  /\ merge_out' = Returned(ret)
                  /\ merge_call' = [outcome |-> "returned", paths |-> audio_file_paths]
    /\ audio_pc' = "update"
    /\ UNCHANGED <<lesson, lesson_audio_segments, individual_audio_ids,
                   lesson_current_time, clip_files, deleted_clips, merged_audio_url,
                   orchVars, slideVars, flagVars, calVars, laterVars,
                   merge_in, merge_pc, merge_i, current_time_ms, merged_len_ms,
                   updated_segments>>

\* merger.merge_audio_files raises (a clip does not decode, the export
\* fails): the except branch keeps the estimated timeline.
MergeRaises ==
    /\ audio_pc = "merge"
    /\ individual_audio_ids # <<>>
    /\ LET segments_with_audio == SegmentsWithAudio(lesson_audio_segments, clip_files)
       IN  /\ segments_with_audio # <<>>
           /\ merge_call' = [outcome |-> "raised",
                             paths |-> [p \in 1..Len(segments_with_audio) |->
                                           segments_with_audio[p].audio_id]]
    /\ total_duration' = lesson_current_time
    /\ merged_audio_url' = None
    /\ audio_pc' = "persist"
    /\ UNCHANGED <<lesson, lesson_audio_segments, individual_audio_ids,
                   lesson_current_time, clip_files, deleted_clips, merged_asset,
                   notAudio>>

\* After the merge returned: the timing of every segment is rewritten, the
\* merged clips are removed and the URL of the merged asset is set.
UpdateAndCleanup ==
    /\ audio_pc = "update"
    /\ lesson_audio_segments' =
          UpdateTiming(1, lesson_audio_segments, merge_out.value.segments)
    /\ clip_files' = cleanup_individual_files(clip_files, merge_call.paths)
    /\ deleted_clips' = DOMAIN clip_files \ DOMAIN clip_files'
    /\ merged_audio_url' = MergedAudioUrl
    /\ audio_pc' = "persist"
    /\ UNCHANGED <<lesson, individual_audio_ids, lesson_current_time, merged_asset,
                   merge_call, total_duration, notAudio>>

\* lesson.update({"$set": {...}})
PersistLesson ==
    /\ audio_pc = "persist"
    /\ lesson' = [lesson EXCEPT !.audio_segments = lesson_audio_segments,
                                !.audio_duration = total_duration,
                                !.audio_generated = TRUE,
                                !.merged_audio_url = merged_audio_url]
    /\ audio_pc' = "done"
    /\ UNCHANGED <<lesson_audio_segments, individual_audio_ids, lesson_current_time,
                   clip_files, deleted_clips, merged_asset, merge_call, total_duration,
                   merged_audio_url, notAudio>>

\* The endpoint is requested again for a lesson that has its merged audio.
RequestAgain ==
    /\ audio_pc = "done"
    /\ lesson.merged_audio_url # None
    /\ audio_pc' = "start"
    /\ UNCHANGED <<lesson, lesson_audio_segments, individual_audio_ids,
                   lesson_current_time, clip_files, deleted_clips, merged_asset,
                   merge_call, total_duration, merged_audio_url, notAudio>>

NextAudio ==
    \/ ReturnExisting \/ RejectNoSlides \/ StartAudio \/ SynthesizeSlide
    \/ SkipMerge \/ MergeReturns \/ MergeRaises \/ UpdateAndCleanup
    \/ PersistLesson \/ RequestAgain

SpecAudio == InitAudio /\ [][NextAudio]_vars

\* The handler ran to its end and persisted the audio fields.
Persisted == audio_pc = "done"

RECURSIVE NearestAudioEnd(_, _)
\* end_time of the nearest segment before position i that bears audio, 0
\* when there is none
NearestAudioEnd(segments, i) ==
    IF i <= 1 THEN 0
    ELSE IF segments[i - 1].audio_id # NoAudioId THEN segments[i - 1].end_time
    ELSE NearestAudioEnd(segments, i - 1)

\* C11: after generate_lesson_merged_audio, every persisted segment without
\* an audio_id starts at the end_time of the nearest preceding audio-bearing
\* segment (at 0 when there is none) and ends at start_time + duration,
\* whatever mix of narrated, un-narrated and failed slides the lesson has,
\* lessons without any audio and runs whose merge failed included.
C11_SilentSegmentsAnchored ==
    Persisted
        => LET segments == lesson.audio_segments
           IN  \A i \in 1..Len(segments) :
                  segments[i].audio_id = NoAudioId
                      => /\ segments[i].start_time = NearestAudioEnd(segments, i)
                         /\ segments[i].end_time
                               = segments[i].start_time + segments[i].duration

\* a finished run with a segment without audio
C11_Reached ==
    /\ Persisted
    /\ \E i \in 1..Len(lesson.audio_segments) :
          lesson.audio_segments[i].audio_id = NoAudioId

\* C12: in the persisted segment list every segment has
\* end_time = start_time + duration, and from each segment to the next in
\* slide order the gap is 0 or one silence pad, so no two segments overlap.
C12_ContiguousOrPadded ==
    Persisted
        => LET segments == lesson.audio_segments
           IN  /\ \A i \in 1..Len(segments) :
                     segments[i].end_time = segments[i].start_time + segments[i].duration
               /\ \A i \in 1..(Len(segments) - 1) :
                     segments[i + 1].start_time - segments[i].end_time
                        \in {0, pause_duration_ms}

\* a persisted list of two segments or more
C12_Reached ==
    /\ Persisted
    /\ Len(lesson.audio_segments) >= 2

RECURSIVE EstimatedTimeline(_, _)
\* The segments of the TTS loop laid end to end from time 0 with the
\* durations the loop gave them: the timing before any merge.
EstimatedTimeline(segments, time) ==
    IF segments = <<>> THEN <<>>
    ELSE <<[Head(segments) EXCEPT !.start_time = time,
                                  !.end_time = time + Head(segments).duration]>>
         \o EstimatedTimeline(Tail(segments), time + Head(segments).duration)

\* C14: when the merge step fails, the lesson record written afterwards
\* keeps its slides and the estimated segment timing and has
\* audio_generated = false; audio_generated is true only in runs that
\* produced a merged asset.
C14_MergeFailureKeepsEstimates ==
    Persisted
        => /\ merge_call.outcome = "raised"
                 => /\ lesson.slides # <<>>
                    /\ lesson.audio_segments
                          = EstimatedTimeline(lesson.audio_segments, 0)
                    /\ ~lesson.audio_generated
           /\ lesson.audio_generated => merged_asset.exported

\* a finished run whose merge call raised
C14_Reached ==
    /\ Persisted
    /\ merge_call.outcome = "raised"

MergedPaths == {merge_call.paths[p] : p \in 1..Len(merge_call.paths)}

\* No clip is gone unless the merge returned and exported its asset; once
\* the clean-up ran, exactly the merged clips are gone.
CleanupState ==
    /\ deleted_clips # {} => merge_call.outcome = "returned" /\ merged_asset.exported
    /\ merge_call.outcome \in {"raised", "skipped"} => deleted_clips = {}
    /\ (merge_call.outcome = "returned" /\ audio_pc \in {"persist", "done"})
          => /\ deleted_clips = MergedPaths
             /\ MergedPaths \cap DOMAIN clip_files = {}

\* A step that removes a clip starts in a state where the merge has
\* returned and the merged asset is exported.
CleanupStep ==
    DOMAIN clip_files' # DOMAIN clip_files /\ ~(DOMAIN clip_files \subseteq DOMAIN clip_files')
        => /\ merge_call.outcome = "returned"
           /\ merged_asset.exported
           /\ DOMAIN clip_files \ DOMAIN clip_files' \subseteq MergedPaths

SlidesWithoutClip ==
    {i \in 1..Len(lesson_audio_segments) :
        /\ lesson_audio_segments[i].audio_id # NoAudioId
        /\ lesson_audio_segments[i].audio_id \notin DOMAIN clip_files \cup deleted_clips}

\* C16: a merge needs at least one clip, and when the clip of a slide that
\* has an audio_id is missing the merge fails before any output is written:
\* the slide is never silently left out of the merged asset.
C16_MissingClipFailsMerge ==
    /\ merged_asset.exported => merge_call.paths # <<>>
    /\ (audio_pc \in {"update", "persist", "done"} /\ SlidesWithoutClip # {})
          => /\ merge_call.outcome = "raised"
             /\ ~merged_asset.exported

\* the merge block was passed with the clip of some slide missing
C16_Reached ==
    /\ audio_pc = "persist"
    /\ SlidesWithoutClip # {}

(***************************************************************************)
(* services/tts_service.py: the voice calibration store and the duration   *)
(* estimate.  Rates are in thousandths of a word per minute and of a       *)
(* character per second, durations in ms, confidence in tenths.            *)
(***************************************************************************)
MaxTasks == 2

default_voice == "en_US-lessac-medium"

Voices == {"en_US-lessac-medium", "en_US-ryan-high", "en_GB-jenny_dioco-medium",
           "en_US-amy-medium"}

\* The voices the synthesis requests use.
TaskVoices == {"en_US-lessac-medium", "en_US-amy-medium"}

\* 'name' in voice_id.lower()
NameInVoice(name, voice_id) ==
    CASE voice_id = "en_US-lessac-medium"      -> name = "lessac"
      [] voice_id = "en_US-ryan-high"          -> name = "ryan"
      [] voice_id = "en_GB-jenny_dioco-medium" -> name = "jenny"
      [] OTHER                                 -> FALSE

\* len(text.split())
word_count(text) == Len(SelectSeq(text, LAMBDA tok : tok # " "))

LongWords == <<"counterrevolutionary", " ", "counterrevolutionary">>

\* The texts whose duration is estimated.
Texts == {<<>>, <<" ">>, <<"word">>, GoodText, LongWords}

\* The narration texts sent to generate_audio.
TaskTexts == {<<" ">>, GoodText}

\* Durations _measure_audio_duration reads from a clip.
MeasuredDurations == {1000, 2000}

\* A confidence that keeps growing with the sample count: the variant
\* C18_ConfidenceSaturates rejects.
confidence_uncapped(sample_count) == sample_count

\* min(1.0, sample_count / 10.0), in tenths
confidence_score(sample_count) == IF sample_count >= 10 THEN 10 ELSE sample_count

VoiceCalibrationData(voice_id, wpm, cps, sample_count, last_updated, confidence) ==
    [voice_id |-> voice_id, words_per_minute |-> wpm, characters_per_second |-> cps,
     sample_count |-> sample_count, last_updated |-> last_updated,
     confidence_score |-> confidence]

\* 1 / weight, for weight = min(0.2, 1.0 / (sample_count + 1))
InverseWeight(sample_count) == Max(5, sample_count + 1)

\* An update that replaces the entry by a fresh one: the variant
\* C17_AtomicPerVoice rejects.
update_voice_calibration_fresh(table, voice_id, text, actual_duration, now) ==
    IF word_count(text) = 0 \/ actual_duration <= 0 THEN table
    ELSE Put(table, voice_id,
             VoiceCalibrationData(voice_id,
                                  (word_count(text) * 60000000) \div actual_duration,
                                  (TextLen(text) * 1000000) \div actual_duration,
                                  1, now, 1))

\* PiperTTSService._update_voice_calibration, the table it leaves
update_voice_calibration(table, voice_id, text, actual_duration, now) ==
    IF word_count(text) = 0 \/ actual_duration <= 0 THEN table
    ELSE LET current_wpm == (word_count(text) * 60000000) \div actual_duration
             current_cps == (TextLen(text) * 1000000) \div actual_duration
         IN  IF voice_id \in DOMAIN table
             THEN LET cal == table[voice_id]
                      inv == InverseWeight(cal.sample_count)
                  IN  Put(table, voice_id,
                          VoiceCalibrationData(
                              cal.voice_id,
                              (cal.words_per_minute * (inv - 1) + current_wpm) \div inv,
                              (cal.characters_per_second * (inv - 1) + current_cps) \div inv,
                              cal.sample_count + 1,
                              now,
                              confidence_score(cal.sample_count + 1)))
             ELSE Put(table, voice_id,
                      VoiceCalibrationData(voice_id, current_wpm, current_cps, 1, now, 1))

DocumentKeys == {"voice_id", "words_per_minute", "characters_per_second",
                 "sample_count", "last_updated", "confidence_score"}

\* The JSON object written for one entry, over the given keys.
Document(cal, keys) ==
    [k \in keys |->
        CASE k = "voice_id"                 -> cal.voice_id
          [] k = "words_per_minute"         -> cal.words_per_minute
          [] k = "characters_per_second"    -> cal.characters_per_second
          [] k = "sample_count"             -> cal.sample_count
          [] k = "last_updated"             -> cal.last_updated
          [] OTHER                          -> cal.confidence_score]

\* A document without the confidence_score key: the variant
\* C19_SaveLoadRoundTrip rejects.
save_without_confidence(table) ==
    [exists |-> TRUE,
     data |-> [v \in DOMAIN table |->
                  Document(table[v], DocumentKeys \ {"confidence_score"})]]

\* PiperTTSService._save_voice_calibrations, the file it leaves
save_voice_calibrations(table) ==
    [exists |-> TRUE,
     data |-> [v \in DOMAIN table |-> Document(table[v], DocumentKeys)]]

\* PiperTTSService._load_voice_calibrations, the table it leaves: entries of
\* the file replace those of the table, the others stay
load_voice_calibrations(table, file) ==
    IF ~file.exists THEN table
    ELSE [v \in DOMAIN table \cup DOMAIN file.data |->
             IF v \in DOMAIN file.data
             THEN LET cal_data == file.data[v]
                  IN  VoiceCalibrationData(cal_data["voice_id"],
                                           cal_data["words_per_minute"],
                                           cal_data["characters_per_second"],
                                           cal_data["sample_count"],
                                           cal_data["last_updated"],
                                           Get(cal_data, "confidence_score", 0))
             ELSE table[v]]

\* A rate that takes every calibration, whatever its confidence: the variant
\* C20_EstimateFloor rejects.
speaking_rate_any_confidence(table, voice_id) ==
    IF voice_id \in DOMAIN table THEN table[voice_id].words_per_minute
    ELSE IF NameInVoice("lessac", voice_id) THEN 142500
    ELSE IF NameInVoice("ryan", voice_id) THEN 157500
    ELSE IF NameInVoice("jenny", voice_id) THEN 135000
    ELSE 150000

\* PiperTTSService.get_voice_speaking_rate
get_voice_speaking_rate(table, voice_id) ==
    IF voice_id \in DOMAIN table /\ table[voice_id].confidence_score >= 3
    THEN table[voice_id].words_per_minute
    ELSE IF NameInVoice("lessac", voice_id) THEN 142500
    ELSE IF NameInVoice("ryan", voice_id) THEN 157500
    ELSE IF NameInVoice("jenny", voice_id) THEN 135000
    ELSE 150000

\* PiperTTSService.estimate_duration_with_calibration, in ms:
\* (word_count / speaking_rate) * 60 * 1.3 against 50 ms per character and 1 s
estimate_duration_with_calibration(table, text, voice) ==
    IF Strip(text) = <<>> THEN 0
    ELSE LET speaking_rate ==
                 get_voice_speaking_rate(table, IF voice = None THEN default_voice
                                                ELSE voice)
             final_duration == (word_count(text) * 78000000) \div speaking_rate
             min_duration == TextLen(text) * 50
         IN  Max(Max(final_duration, min_duration), 1000)

\* The tables a calibration file left by an earlier run can hold.
StoredTables ==
    {EmptyDict}
    \cup {Put(EmptyDict, default_voice,
              VoiceCalibrationData(default_voice, wpm, 14000, n, 0, confidence_score(n))) :
            wpm \in {160000, 400000}, n \in {2, 9}}

NoMeasurements == [v \in TaskVoices |-> 0]

InitCal ==
    /\ \E table \in StoredTables :
          /\ calibration_file = IF table = EmptyDict THEN NoFile
                                ELSE save_voice_calibrations(table)
          /\ voice_calibrations = load_voice_calibrations(EmptyDict, calibration_file)
    /\ initial_calibrations = voice_calibrations
    /\ tasks = <<>>
    /\ measurements = NoMeasurements
    /\ estimate = NoEstimate
    /\ clock = 1
    /\ orchIdle /\ slideIdle /\ flagIdle /\ mergeIdle /\ audioIdle /\ laterIdle

notCal == <<orchVars, slideVars, flagVars, mergeVars, audioVars, laterVars>>

\* generate_audio is called: blank text and cached audio return at once,
\* otherwise the coroutine waits for the synthesis process.
StartTask ==
    /\ Len(tasks) < MaxTasks
    /\ \E voice \in TaskVoices, text \in TaskTexts, cached \in BOOLEAN :
          tasks' = Append(tasks,
                          [voice |-> voice, text |-> text,
                           pc |-> IF Strip(text) = <<>> \/ cached THEN "done"
                                  ELSE "synthesizing"])
    /\ UNCHANGED <<voice_calibrations, calibration_file, measurements,
                   initial_calibrations, estimate, clock, notCal>>

\* The synthesis process of task t ends.  On success the clip is measured
\* and, when a duration was read, the calibration is updated and saved
\* before the coroutine waits again (for _cleanup_cache).
FinishSynthesis ==
    \E t \in 1..Len(tasks) :
       /\ tasks[t].pc = "synthesizing"
       /\ \/ /\ tasks' = [tasks EXCEPT ![t].pc = "done"]
             /\ UNCHANGED <<voice_calibrations, calibration_file, measurements, clock>>
          \/ /\ tasks' = [tasks EXCEPT ![t].pc = "cleanup"]
             /\ UNCHANGED <<voice_calibrations, calibration_file, measurements, clock>>
          \/ \E actual_duration \in MeasuredDurations :
                /\ tasks' = [tasks EXCEPT ![t].pc = "cleanup"]
                /\ voice_calibrations' =
                      update_voice_calibration(voice_calibrations, tasks[t].voice,
                                               tasks[t].text, actual_duration, clock)
                /\ calibration_file' = save_voice_calibrations(voice_calibrations')
                /\ measurements' =
                      [measurements EXCEPT ![tasks[t].voice] = @ + 1]
                /\ clock' = clock + 1
       /\ UNCHANGED <<initial_calibrations, estimate, notCal>>

\* _cleanup_cache returns and generate_audio with it.
CleanupCache ==
    \E t \in 1..Len(tasks) :
       /\ tasks[t].pc = "cleanup"
       /\ tasks' = [tasks EXCEPT ![t].pc = "done"]
       /\ UNCHANGED <<voice_calibrations, calibration_file, measurements,
                      initial_calibrations, estimate, clock, notCal>>

\* refresh_voice_configurations loads the file into the running table.
RefreshVoiceConfigurations ==
    /\ voice_calibrations' = load_voice_calibrations(voice_calibrations, calibration_file)
    /\ UNCHANGED <<calibration_file, tasks, measurements, initial_calibrations,
                   estimate, clock, notCal>>

\* The process is restarted: coroutines in flight are gone, the table is
\* loaded from the file.
Restart ==
    /\ tasks' = [t \in 1..Len(tasks) |->
                    IF tasks[t].pc = "done" THEN tasks[t]
                    ELSE [tasks[t] EXCEPT !.pc = "killed"]]
    /\ voice_calibrations' = load_voice_calibrations(EmptyDict, calibration_file)
    /\ initial_calibrations' = voice_calibrations'
    /\ measurements' = NoMeasurements
    /\ UNCHANGED <<calibration_file, estimate, clock, notCal>>

\* estimate_duration_with_calibration(text, voice)
EstimateDuration ==
    /\ \E text \in Texts, voice \in Voices \cup {None} :
          estimate' = [called |-> TRUE, voice |-> voice, text |-> text,
                       seconds |-> estimate_duration_with_calibration(
                                       voice_calibrations, text, voice)]
    /\ UNCHANGED <<voice_calibrations, calibration_file, tasks, measurements,
                   initial_calibrations, clock, notCal>>

NextCal ==
    \/ StartTask \/ FinishSynthesis \/ CleanupCache \/ RefreshVoiceConfigurations
    \/ Restart

SpecCal == InitCal /\ [][NextCal]_vars

\* The estimate on every table a run can have built: no entry, or an entry
\* of the default voice or of another voice, below, at and above the
\* confidence the estimate asks for.
EstimateTables ==
    {EmptyDict}
    \cup {Put(EmptyDict, voice,
              VoiceCalibrationData(voice, wpm, 14000, n, 0, confidence_score(n))) :
            voice \in {default_voice, "en_US-ryan-high"},
            wpm \in {160000, 400000}, n \in {1, 2, 3, 10}}

InitEstimate ==
    /\ voice_calibrations \in EstimateTables
    /\ calibration_file = IF voice_calibrations = EmptyDict THEN NoFile
                          ELSE save_voice_calibrations(voice_calibrations)
    /\ initial_calibrations = voice_calibrations
    /\ tasks = <<>>
    /\ measurements = NoMeasurements
    /\ estimate = NoEstimate
    /\ clock = 1
    /\ orchIdle /\ slideIdle /\ flagIdle /\ mergeIdle /\ audioIdle /\ laterIdle

NextEstimate == EstimateDuration

SpecEstimate == InitEstimate /\ [][NextEstimate]_vars

\* sample_count the process started with for a voice
InitialSamples(v) ==
    IF v \in DOMAIN initial_calibrations THEN initial_calibrations[v].sample_count ELSE 0

\* An entry is whole: it is filed under its own voice and its confidence
\* belongs to its sample count.
WholeEntry(v) ==
    /\ voice_calibrations[v].voice_id = v
    /\ voice_calibrations[v].sample_count >= 1
    /\ voice_calibrations[v].confidence_score
          = (IF voice_calibrations[v].sample_count <= 10
             THEN voice_calibrations[v].sample_count ELSE 10)

\* C17: calibration updates are atomic per voice entry: under every
\* interleaving of the synthesis coroutines, after k valid measurements were
\* recorded for a voice its sample_count is the initial value plus k, and
\* every entry a coroutine can see is whole.
C17_AtomicPerVoice ==
    /\ \A v \in TaskVoices :
          IF InitialSamples(v) + measurements[v] = 0
          THEN v \notin DOMAIN voice_calibrations
          ELSE /\ v \in DOMAIN voice_calibrations
               /\ voice_calibrations[v].sample_count
                     = InitialSamples(v) + measurements[v]
    /\ \A v \in DOMAIN voice_calibrations : WholeEntry(v)

\* two coroutines were in flight together and both recorded a measurement
\* for the default voice, which had an entry before
C17_Witness ==
    /\ Len(tasks) >= 2
    /\ tasks[1].pc = "cleanup" /\ tasks[2].pc = "cleanup"
    /\ tasks[1].voice = default_voice /\ tasks[2].voice = default_voice
    /\ InitialSamples(default_voice) > 0
    /\ measurements[default_voice] = 2
    /\ voice_calibrations[default_voice].sample_count
          = InitialSamples(default_voice) + 2

\* confidence_score is min(1.0, sample_count / 10), in tenths
ConfidenceOfSamples ==
    \A v \in DOMAIN voice_calibrations :
       LET cal == voice_calibrations[v]
       IN  /\ cal.confidence_score <= 10
           /\ cal.sample_count < 10 => cal.confidence_score = cal.sample_count
           /\ cal.sample_count < 10 => cal.confidence_score < 10
           /\ cal.sample_count >= 10 => cal.confidence_score = 10

\* a step that records a sample never lowers the confidence
ConfidenceGrows ==
    \A v \in DOMAIN voice_calibrations \cap DOMAIN voice_calibrations' :
       voice_calibrations'[v].sample_count >= voice_calibrations[v].sample_count
           => voice_calibrations'[v].confidence_score
                 >= voice_calibrations[v].confidence_score

\* C18: after any sequence of recorded measurements confidence_score is
\* min(1.0, sample_count / 10): it never decreases as samples are recorded,
\* is below 1.0 under 10 samples, is 1.0 from 10 samples on and never
\* exceeds 1.0.
C18_ConfidenceSaturates == [](ConfidenceOfSamples) /\ [][ConfidenceGrows]_vars

\* an entry that went beyond 10 samples
C18_Witness ==
    \E v \in DOMAIN voice_calibrations :
       /\ voice_calibrations[v].sample_count > 10
       /\ measurements[v] >= 2
       /\ voice_calibrations[v].confidence_score = 10

\* The persisted document holds the in-memory table: the same voices, and
\* loading it into an empty table gives the table back.
PersistedMatchesTable ==
    (calibration_file.exists \/ voice_calibrations # EmptyDict)
        => /\ calibration_file.exists
           /\ DOMAIN calibration_file.data = DOMAIN voice_calibrations
           /\ load_voice_calibrations(EmptyDict, calibration_file) = voice_calibrations

\* A restart after recorded measurements leaves the table as it was.
RestartKeepsTable ==
    (measurements # NoMeasurements /\ measurements' = NoMeasurements)
        => voice_calibrations' = voice_calibrations

DefaultRate(voice_id) ==
    CASE voice_id = "en_US-lessac-medium"      -> 142500
      [] voice_id = "en_US-ryan-high"          -> 157500
      [] voice_id = "en_GB-jenny_dioco-medium" -> 135000
      [] OTHER                                 -> 150000

\* The estimate C20 describes for the last call: the calibrated rate exactly
\* when the voice has a calibration of confidence 0.3 or more, the buffer of
\* 1.3, and the floor of 50 ms per character and of 1 s.
EstimateAsStated ==
    LET voice_id == IF estimate.voice = None THEN default_voice ELSE estimate.voice
        calibrated == /\ voice_id \in DOMAIN voice_calibrations
                      /\ voice_calibrations[voice_id].confidence_score >= 3
        rate == IF calibrated THEN voice_calibrations[voice_id].words_per_minute
                ELSE DefaultRate(voice_id)
        \* 60 s x 1.3 per word, over the rate
        buffered == (word_count(estimate.text) * 78000000) \div rate
    IN  /\ estimate.seconds >= Max(TextLen(estimate.text) * 50, 1000)
        /\ estimate.seconds = Max(buffered, Max(TextLen(estimate.text) * 50, 1000))

\* C20 as stated: for every text and voice the estimate uses the calibrated
\* rate exactly when a calibration of confidence 0.3 or more exists, applies
\* the 1.3 buffer and returns at least max(0.05 x characters, 1.0) seconds.
C20_EstimateEveryText ==
    estimate.called => EstimateAsStated

\* C20, amended: that holds for every text with a character that is not
\* white space; for an empty or blank text the estimate is 0.
C20_EstimateFloor ==
    estimate.called
        => IF Strip(estimate.text) = <<>> THEN estimate.seconds = 0
           ELSE EstimateAsStated

\* an estimate for spoken text with a calibration below the confidence asked
\* for, so that the default rate is used
C20_Witness ==
    /\ estimate.called
    /\ estimate.text = GoodText
    /\ estimate.voice = "en_US-ryan-high"
    /\ "en_US-ryan-high" \in DOMAIN voice_calibrations
    /\ voice_calibrations["en_US-ryan-high"].confidence_score < 3
    /\ voice_calibrations["en_US-ryan-high"].words_per_minute = 400000
    /\ estimate.seconds = 1485



(***************************************************************************)
(* SpecPlan: analyze_topic_structure on every outcome of the topic         *)
(* analysis call, every difficulty and a range of target durations         *)
(***************************************************************************)
\* What ollama_service._make_request hands back: it raises, returns None
\* (non-200 answer, request error, timeout) or returns the response text.
\* A text is a sequence of tokens: "fence-json" and "fence" (the markdown code fences), the
\* brackets, "pair" (one "key": value member), "1" (a number), "null",
\* "prose" (any other words) and " ".
Response(kind, text) == [kind |-> kind, text |-> text]

AnalysisResponses ==
    { Response("raise", <<>>),
      Response("none", <<>>),
      Response("text", <<>>),
      Response("text", <<" ">>),
      Response("text", <<"prose">>),
      Response("text", <<"{", "pair">>),
      Response("text", <<"{", "pair", "}">>),
      Response("text", <<"prose", " ", "{", "pair", "}", " ", "prose">>),
      Response("text", <<"fence-json", "{", "pair", "}", "fence">>),
      Response("text", <<"[", "1", "]">>),
      Response("text", <<"fence", "[", "1", "]", "fence">>),
      Response("text", <<"null">>),
      Response("text", <<"1">>) }

Positions(text, toks) == {i \in 1..Len(text) : text[i] \in toks}
MinOf(S) == CHOOSE x \in S : \A y \in S : x <= y
MaxOf(S) == CHOOSE x \in S : \A y \in S : x >= y

\* LessonStructureService._extract_json_from_markdown
extract_json_from_markdown(content) ==
    LET stripped == Strip(content)
        opens == {i \in Positions(stripped, {"fence-json", "fence"}) :
                    \E j \in Positions(stripped, {"fence"}) : j > i}
        starts == Positions(stripped, {"{"})
        ends == Positions(stripped, {"}"})
    IN  IF opens # {}
        THEN LET i == MinOf(opens)
                 j == MinOf({k \in Positions(stripped, {"fence"}) : k > i})
             IN  Strip(SubSeq(stripped, i + 1, j - 1))
        ELSE IF starts # {} /\ ends # {} /\ MaxOf(ends) > MinOf(starts)
        THEN SubSeq(stripped, MinOf(starts), MaxOf(ends))
        ELSE stripped

\* json.loads: the type of the value parsed, or "JSONDecodeError"
json_loads(content) ==
    LET body == RemoveToken(content, " ")
        n == Len(body)
        inner == SubSeq(body, 2, n - 1)
    IN  IF n >= 2 /\ body[1] = "{" /\ body[n] = "}"
           /\ \A k \in 1..Len(inner) : inner[k] = "pair"
        THEN "dict"
        ELSE IF n >= 2 /\ body[1] = "[" /\ body[n] = "]"
                /\ \A k \in 1..Len(inner) : inner[k] = "1"
        THEN "list"
        ELSE IF body = <<"null">> THEN "NoneType"
        ELSE IF body = <<"1">> THEN "int"
        ELSE "JSONDecodeError"

\* LessonStructureService._fallback_topic_analysis
fallback_topic_analysis(difficulty_level) ==
    [type |-> "dict", strategy |-> "structured",
     reasoning |-> "Fallback analysis based on heuristics"]

\* LessonStructureService._analyze_topic_for_sections: whatever json.loads
\* yields is returned
analyze_topic_for_sections(llm_response, difficulty_level) ==
    IF llm_response.kind = "raise" THEN fallback_topic_analysis(difficulty_level)
    ELSE IF llm_response.kind = "none" \/ llm_response.text = <<>>
    THEN fallback_topic_analysis(difficulty_level)
    ELSE LET parsed == json_loads(extract_json_from_markdown(llm_response.text))
         IN  IF parsed = "JSONDecodeError"
             THEN fallback_topic_analysis(difficulty_level)
             ELSE [type |-> parsed, strategy |-> "structured",
                   reasoning |-> "analysis explanation"]

\* LessonStructureService.analyze_topic_structure with its topic analysis:
\* _select_optimal_template calls topic_analysis.get for the first section,
\* which raises AttributeError unless the analysis is a dict.
plan_lesson(llm_response, difficulty_level, target_duration) ==
    LET topic_analysis == analyze_topic_for_sections(llm_response, difficulty_level)
        selected_sections == select_sections_for_duration(target_duration)
        slide_structures == generate_slide_structures(difficulty_level, target_duration,
                                                      selected_sections)
    IN  IF selected_sections # <<>> /\ topic_analysis.type # "dict"
        THEN [kind |-> "raised", error |-> "AttributeError", total_slides |-> 0,
              estimated_total_duration |-> 0, slides |-> <<>>,
              teaching_strategy |-> None, reasoning |-> topic_analysis.reasoning]
        ELSE [kind |-> "returned", error |-> None,
              total_slides |-> Len(slide_structures),
              estimated_total_duration |->
                  SumSeq([k \in 1..Len(slide_structures) |->
                             slide_structures[k].estimated_duration]),
              slides |-> slide_structures,
              teaching_strategy |-> topic_analysis.strategy,
              reasoning |-> topic_analysis.reasoning]

Difficulties == {"beginner", "intermediate", "advanced"}

\* Target durations in seconds, within the 30..600 the routers accept.  They
\* are multiples of 3 below 90 and from 180 on and multiples of 9 between,
\* so that every scaled duration is a whole number of milliseconds and the
\* flooring of scaled_duration changes nothing.
TargetDurations == {30, 45, 48, 60, 75, 87, 90, 135, 171, 180, 240, 600}

InitPlan ==
    /\ plan_in \in [response : AnalysisResponses, difficulty : Difficulties,
                    target : TargetDurations]
    /\ plan_out = NoPlan
    /\ cacheIdle /\ sanIdle /\ moreIdle
    /\ orchIdle /\ slideIdle /\ flagIdle /\ mergeIdle /\ audioIdle /\ calIdle

AnalyzeTopicStructure ==
    /\ plan_out = NoPlan
    /\ plan_out' = plan_lesson(plan_in.response, plan_in.difficulty, plan_in.target)
    /\ UNCHANGED <<plan_in, cacheVars, sanVars, moreVars, orchVars, slideVars, flagVars,
                   mergeVars, audioVars, calVars>>

NextPlan == AnalyzeTopicStructure
SpecPlan == InitPlan /\ [][NextPlan]_vars

\* C21: for every outcome of the topic-analysis call (it raises, times out,
\* returns nothing, text without JSON, malformed JSON, JSON that is not an
\* object) the planner returns a lesson structure and no error reaches the
\* caller.
C21_PlannerAlwaysReturns ==
    plan_out # NoPlan => plan_out.kind = "returned"


ContentTypes(slides) == {slides[k].content_type : k \in 1..Len(slides)}

SectionsFor(target_duration) ==
    IF target_duration < 90
    THEN {"title-objective", "definition", "examples", "mini-recap"}
    ELSE IF target_duration < 180
    THEN {"title-objective", "context-motivation", "definition", "examples",
          "common-mistakes", "mini-recap"}
    ELSE {lesson_sections[k].content_type : k \in 1..Len(lesson_sections)}

ScaledDurations(difficulty_level, target_duration) ==
    LET selected_sections == select_sections_for_duration(target_duration)
        base(k) == selected_sections[k].base_duration
                       * DifficultyMultiplier(difficulty_level)
        total_base_duration == SumSeq([k \in 1..Len(selected_sections) |-> base(k)])
    IN  [k \in 1..Len(selected_sections) |->
            scaled_duration(base(k), target_duration, total_base_duration)]

NoneBelowMinimum ==
    \A k \in 1..Len(ScaledDurations(plan_in.difficulty, plan_in.target)) :
        ScaledDurations(plan_in.difficulty, plan_in.target)[k] >= 8000

\* C23: when no scaled slide duration is below 8.0 s, the planned durations
\* add up to the target duration.
C23_SumEqualsTarget ==
    (plan_out.kind = "returned" /\ NoneBelowMinimum) =>
        plan_out.estimated_total_duration = plan_in.target * 1000

C23_Witness ==
    /\ plan_out.kind = "returned"
    /\ plan_in.target = 48
    /\ NoneBelowMinimum
    /\ \E k \in 1..Len(plan_out.slides) : plan_out.slides[k].estimated_duration = 8000
    /\ plan_out.estimated_total_duration = 48000

\* C24: every planned slide lasts at least 8.0 s and estimated_total_duration
\* is the sum of the slide durations, so the planned total is never below
\* the target.
C24_MinimumAndTotal ==
    plan_out.kind = "returned" =>
        /\ \A k \in 1..Len(plan_out.slides) :
               plan_out.slides[k].estimated_duration >= 8000
        /\ plan_out.estimated_total_duration =
               SumSeq([k \in 1..Len(plan_out.slides) |->
                          plan_out.slides[k].estimated_duration])
        /\ plan_out.estimated_total_duration >= plan_in.target * 1000

C24_Witness ==
    /\ plan_out.kind = "returned"
    /\ plan_in.target = 30
    /\ ~NoneBelowMinimum
    /\ \E k \in 1..Len(plan_out.slides) : plan_out.slides[k].estimated_duration = 8000
    /\ plan_out.estimated_total_duration > plan_in.target * 1000



(***************************************************************************)
(* SpecCache: TemplateService.templates_cache under any sequence of fill,  *)
(* render and slide generation calls at any container width                *)
(***************************************************************************)
\* 32 characters without a space: longer than the 12 and 30 character
\* limits of the catalog, and cut by them at a token boundary
UnbrokenText == [k \in 1..16 |-> "ab"]

\* an answer of five emoji characters and nothing else
EmojiText == [k \in 1..5 |-> "emoji"]

CacheTexts == {UnbrokenText, EmojiText}

\* the LLM's answers to the successive prompts of one fill: one text for
\* the heading and the content, one for the narration
CacheBehaviours ==
    {[k \in 1..(max_retries + 1) |-> LlmText(IF k <= 2 THEN first ELSE last)] :
        first \in CacheTexts, last \in CacheTexts}

\* container widths of the three breakpoints
ContainerWidths == {375, 800, 1200}

\* TemplateService._load_templates: the cache as loaded
LoadedTemplates == [id \in {t.id : t \in Catalog} |-> get_template(id)]

InitCache ==
    /\ templates_cache = LoadedTemplates
    /\ cache_out = NoCall
    /\ planIdle /\ sanIdle /\ moreIdle
    /\ orchIdle /\ slideIdle /\ flagIdle /\ mergeIdle /\ audioIdle /\ calIdle

notCache == <<planVars, sanVars, moreVars, orchVars, slideVars, flagVars, mergeVars,
              audioVars, calVars>>

\* what one fill_template call leaves in the cached template it was given
template_after_fill(template, slide_index, width) ==
    IF slide_index >= template.nslides THEN template
    ELSE merge_responsive_overrides(template, width)

\* TemplateFiller.fill_template on a template of the cache, which is how
\* routers/templates.py calls it, with the client's container size
FillCachedTemplate ==
    \E template_id \in DOMAIN templates_cache, width \in ContainerWidths,
       llm \in CacheBehaviours :
        LET template == templates_cache[template_id]
        IN  /\ cache_out' =
                  [op |-> "fill_template", template_id |-> template_id,
                   width |-> width,
                   fill_breakpoint |-> filler_breakpoint(width),
                   render_breakpoint |-> None,
                   constraints |-> get_responsive_constraints(template, width),
                   result |-> fill_template(template, llm, 0, width)]
            /\ templates_cache' =
                  [templates_cache EXCEPT
                      ![template_id] = template_after_fill(template, 0, width)]
            /\ UNCHANGED notCache

\* TemplateService.render_template_with_content: _merge_layout_config copies
\* every element's config before it applies the overrides
RenderCachedTemplate ==
    \E template_id \in DOMAIN templates_cache, width \in ContainerWidths :
        /\ cache_out' =
              [op |-> "render_template_with_content", template_id |-> template_id,
               width |-> width,
               fill_breakpoint |-> None,
               render_breakpoint |-> Breakpoint(width),
               constraints |-> EmptyDict,
               result |-> render_template_with_content(
                              template_id, get_fallback_content("definition"))]
        /\ UNCHANGED <<templates_cache, notCache>>

\* AITutorService._generate_single_slide for a container of some width: the
\* content is filled for a container slide_width wide, the elements are
\* rendered for the container given
GenerateSlideInContainer ==
    \E template_id \in DOMAIN templates_cache \cup {"tpl-missing"},
       width \in ContainerWidths, llm \in CacheBehaviours :
        LET template == Get(templates_cache, template_id, NoTemplate)
            scenario == [llm |-> llm, fault |-> "none"]
            slide_structure == SlideStructureFor(template_id)
        IN  /\ cache_out' =
                  [op |-> "generate_single_slide", template_id |-> template_id,
                   width |-> width,
                   fill_breakpoint |-> filler_breakpoint(slide_width),
                   render_breakpoint |-> Breakpoint(width),
                   constraints |->
                       IF template = NoTemplate \/ template.nslides = 0
                       THEN EmptyDict
                       ELSE get_responsive_constraints(template, slide_width),
                   result |-> slide_from_content(
                                  slide_structure, 0, scenario,
                                  slide_content_from(template, slide_structure,
                                                     scenario))]
            /\ templates_cache' =
                  IF template = NoTemplate THEN templates_cache
                  ELSE [templates_cache EXCEPT
                           ![template_id] = template_after_fill(template, 0, slide_width)]
            /\ UNCHANGED notCache

NextCache == FillCachedTemplate \/ RenderCachedTemplate \/ GenerateSlideInContainer
SpecCache == InitCache /\ [][NextCache]_vars

\* C25: the catalog is read-only after load: after any sequence of fill,
\* render and slide generation calls at any container sizes every cached
\* template equals its value at load time.
C25_CatalogReadOnly == templates_cache = LoadedTemplates


\* C26: an unknown template id or an out-of-range slide index is an explicit
\* error that reaches the caller: the orchestrator never returns a slide of
\* status "success" built from substituted default content or an empty
\* element list for such a template.
C26_BadTemplateIsError ==
    (/\ slide_out.op = "generate_single_slide"
     /\ slide_out.fault = "none"
     /\ render_template_with_content(slide_in.template_id,
                                     get_fallback_content("definition")).raised)
        => slide_out.result.status # "success"

\* C27: the breakpoint the Filler resolves a slide's constraints at is the
\* breakpoint of the container the slide is rendered into, for mobile,
\* tablet and desktop containers alike.
C27_SameBreakpoint ==
    cache_out.op = "generate_single_slide" =>
        cache_out.fill_breakpoint = cache_out.render_breakpoint

\* the fields of a fill that hold an LLM answer
FromLlm(call) ==
    IF call.result.raised \/ call.result.value.is_fallback THEN {}
    ELSE DOMAIN call.result.value.filled_content
             \cap templates_cache[call.template_id].llmPrompts

\* C28: every field value the Filler returns from an LLM response has at
\* most maxChars characters under the constraints resolved for its element.
C28_WithinMaxChars ==
    cache_out.op = "fill_template" =>
        \A k \in FromLlm(cache_out) :
            TextLen(cache_out.result.value.filled_content[k])
                <= Get(cache_out.constraints, k, TextCfg).maxChars


\* C29: the narration of a slide is the sanitized, punctuation-terminated
\* narration field when that field is non-empty, otherwise it is built from
\* the sanitized heading and content, otherwise it is the generic sentence;
\* so the narration of every slide of status "success" is non-empty.
C29_NarrationNonEmpty ==
    (cache_out.op = "generate_single_slide" /\ cache_out.result.status = "success")
        => /\ cache_out.result.narration # <<>>
           /\ cache_out.result.narration[Len(cache_out.result.narration)] = "."



(***************************************************************************)
(* SpecSanitize: _sanitize_text_for_tts applied once and twice             *)
(***************************************************************************)
MaxTextLen == 5

\* what the texts are made of: a word, white space, a period, a markdown
\* marker, a colon, the "Narration" label, the abbreviation "e.g"
SanitizerTokens == {"word", " ", ".", "*", ":", "narration", "e.g"}

InitSanitize ==
    /\ sanitize_in \in SeqsUpTo(SanitizerTokens, MaxTextLen)
    /\ sanitize_out = NoPass
    /\ planIdle /\ cacheIdle /\ moreIdle
    /\ orchIdle /\ slideIdle /\ flagIdle /\ mergeIdle /\ audioIdle /\ calIdle

\* the sanitizer runs on the text, and again on its own output
SanitizeTwice ==
    /\ ~sanitize_out.done
    /\ sanitize_out' = [once |-> sanitize_text_for_tts(sanitize_in),
                        twice |-> sanitize_text_for_tts(
                                      sanitize_text_for_tts(sanitize_in)),
                        done |-> TRUE]
    /\ UNCHANGED <<sanitize_in, planVars, cacheVars, moreVars, orchVars, slideVars, flagVars,
                   mergeVars, audioVars, calVars>>

NextSanitize == SanitizeTwice
SpecSanitize == InitSanitize /\ [][NextSanitize]_vars

\* C30: the sanitizer is idempotent: sanitizing its own output changes
\* nothing, also for nested markdown, repeated or space-separated periods,
\* label prefixes and abbreviations.
C30_SanitizeIdempotent ==
    sanitize_out.done => sanitize_out.twice = sanitize_out.once


\* the per-slide durations of a plan
SlideDurations(slides) == [k \in 1..Len(slides) |-> slides[k].estimated_duration]

C35_ProgressMonotone ==
    LET shown == {k \in 1..Len(events) : events[k].status = "generating"}
    IN  /\ \A j \in shown, k \in shown :
               j < k => events[j].pnum * events[k].pden <= events[k].pnum * events[j].pden
        /\ (1 \in shown) => events[1].pnum = 0
        /\ \A k \in shown :
               events[k].pnum >= events[k].pden => events[k].kind = "done"



(***************************************************************************)
(* SpecEntry: the four endpoints that start a lesson generation, from the  *)
(* request to the call of AITutorService.generate_ai_tutor_lesson, whose   *)
(* first step is the planner call.  Durations are in seconds here.         *)
(***************************************************************************)
RequestDifficulties == {None, "beginner", "intermediate", "advanced", "expert"}
\* the target_duration field: absent, or one number of seconds
RequestDurations == {<<>>, <<29>>, <<30>>, <<600>>, <<601>>}
SettingsDifficulties == {"intermediate", "easy"}
SettingsTimings == {"short", "medium", "long", "slow"}
EntryPoints == {"ai_tutor.generate", "lesson.generate_lesson_content",
                "lesson.ai_tutor_generate", "lesson.ai_tutor_stream"}

Rejected(code) == [kind |-> "rejected", status_code |-> code]
Planned(difficulty, duration) ==
    [kind |-> "planned", difficulty_level |-> difficulty, target_duration |-> duration]

\* an omitted field takes the default of the request model
FieldOr(value, default) == IF value = None THEN default ELSE value

\* Python's "a if a else b"
TruthyOr(value, fallback) == IF value = None \/ value = "" THEN fallback ELSE value

\* the same two on the duration field
DurationOr(field, default) == IF field = <<>> THEN default ELSE field[1]

timing_to_duration(timing) ==
    CASE timing = "short" -> 75
      [] timing = "medium" -> 135
      [] timing = "long" -> 240
      [] OTHER -> 135

get_user_lesson_preferences(in) ==
    [difficulty_level |-> TruthyOr(in.settings_difficulty, "intermediate"),
     target_duration |-> timing_to_duration(in.settings_timing)]

\* the Field(None, ge=30.0, le=600.0) of AITutorGenerationRequest
AITutorGenerationRequest_valid(in) ==
    in.target_duration = <<>> \/ (in.target_duration[1] >= 30 /\ in.target_duration[1] <= 600)

\* routers/ai_tutor.py, POST /ai-tutor/generate
ai_tutor_generate(in) ==
    LET difficulty == FieldOr(in.difficulty_level, "intermediate")
        duration == DurationOr(in.target_duration, 120)
    IN  IF difficulty \notin {"beginner", "intermediate", "advanced"} THEN Rejected(400)
        ELSE IF duration < 30 \/ duration > 600 THEN Rejected(400)
        ELSE Planned(difficulty, duration)

\* routers/lesson.py, POST /lesson/{lesson_id}/generate: in.difficulty_level
\* is the stored lesson's field
generate_lesson_content(in) ==
    LET user_preferences == get_user_lesson_preferences(in)
    IN  Planned(TruthyOr(in.difficulty_level, user_preferences.difficulty_level),
                user_preferences.target_duration)

\* routers/lesson.py, POST /ai-tutor/generate and POST /ai-tutor/stream
effective_request(in) ==
    LET user_preferences == get_user_lesson_preferences(in)
    IN  IF ~AITutorGenerationRequest_valid(in) THEN Rejected(422)
        ELSE Planned(TruthyOr(in.difficulty_level, user_preferences.difficulty_level),
                     DurationOr(in.target_duration, user_preferences.target_duration))

InitEntry ==
    /\ entry_in \in [endpoint : EntryPoints, difficulty_level : RequestDifficulties,
                     target_duration : RequestDurations,
                     settings_difficulty : SettingsDifficulties,
                     settings_timing : SettingsTimings]
    /\ entry_out = NoEntry
    /\ earlierIdle /\ engineIdle /\ raceIdle /\ streamIdle

AiTutorGenerate ==
    /\ entry_out = NoEntry
    /\ entry_in.endpoint = "ai_tutor.generate"
    /\ entry_out' = ai_tutor_generate(entry_in)
    /\ UNCHANGED <<entry_in, earlierVars, engineVars, raceVars, streamVars>>

GenerateLessonContent ==
    /\ entry_out = NoEntry
    /\ entry_in.endpoint = "lesson.generate_lesson_content"
    /\ entry_out' = generate_lesson_content(entry_in)
    /\ UNCHANGED <<entry_in, earlierVars, engineVars, raceVars, streamVars>>

LessonAiTutorGenerate ==
    /\ entry_out = NoEntry
    /\ entry_in.endpoint = "lesson.ai_tutor_generate"
    /\ entry_out' = effective_request(entry_in)
    /\ UNCHANGED <<entry_in, earlierVars, engineVars, raceVars, streamVars>>

StreamAiTutorGeneration ==
    /\ entry_out = NoEntry
    /\ entry_in.endpoint = "lesson.ai_tutor_stream"
    /\ entry_out' = effective_request(entry_in)
    /\ UNCHANGED <<entry_in, earlierVars, engineVars, raceVars, streamVars>>

NextEntry ==
    \/ AiTutorGenerate
    \/ GenerateLessonContent
    \/ LessonAiTutorGenerate
    \/ StreamAiTutorGeneration
SpecEntry == InitEntry /\ [][NextEntry]_vars

\* C31: on every entry point, a request whose difficulty is not beginner,
\* intermediate or advanced, or whose target duration is outside 30..600
\* seconds, never reaches the planner.
C31_InvalidRequestRejected ==
    entry_out.kind = "planned" =>
        /\ entry_out.difficulty_level \in Difficulties
        /\ entry_out.target_duration >= 30
        /\ entry_out.target_duration <= 600



(***************************************************************************)
(* SpecEngine: three helpers of the Template Engine called on their own:   *)
(* _truncate_text on character sequences, the heading font size of         *)
(* _create_heading_element, and the breakpoint of a container width next   *)
(* to the Filler's.  Text is a sequence of characters here.                *)
(***************************************************************************)
MaxChars == 10
MaxTextChars == 12
Characters == {"a", " "}
Ellipsis == <<".", ".", ".">>
FontSizeLabels == {"small", "medium", "large", "xlarge", "xxlarge", "huge", None}
EngineWidths == {320, 375, 539, 540, 767, 768, 899, 900, 1023, 1024, 1439, 1440}

\* str.rfind(' '): 0-based index of the last space, -1 when there is none
rfind_space(chars) ==
    LET at == {k \in 1..Len(chars) : chars[k] = " "}
    IN  IF at = {} THEN -1 ELSE (CHOOSE k \in at : \A j \in at : j <= k) - 1

\* TemplateService._truncate_text; last_space > max_chars * 0.7 in tenths
truncate_text(text, max_chars) ==
    IF Len(text) <= max_chars THEN text
    ELSE LET truncated == SubSeq(text, 1, max_chars)
             last_space == rfind_space(truncated)
         IN  IF last_space * 10 > max_chars * 7
             THEN SubSeq(truncated, 1, last_space) \o Ellipsis
             ELSE truncated \o Ellipsis

\* TemplateService._calculate_base_font_size
calculate_base_font_size(width) ==
    IF width < 768 THEN Max(14, Min(18, width \div 30))
    ELSE IF width < 1024 THEN Max(16, Min(20, width \div 45))
    ELSE Max(18, Min(24, width \div 60))

\* font_size_map.get(config.get("fontSize", "large"), base_font_size * 2);
\* int(base * 1.2) is (base * 12) \div 10, and so on
heading_font_size(label, base_font_size) ==
    LET fontSize == IF label = None THEN "large" ELSE label
    IN  CASE fontSize = "small" -> (base_font_size * 12) \div 10
          [] fontSize = "medium" -> (base_font_size * 15) \div 10
          [] fontSize = "large" -> (base_font_size * 18) \div 10
          [] fontSize = "xlarge" -> (base_font_size * 22) \div 10
          [] fontSize = "xxlarge" -> (base_font_size * 26) \div 10
          [] OTHER -> base_font_size * 2

EngineCall(op, text, width, label) ==
    [op |-> op, text |-> text, max_chars |-> MaxChars, width |-> width, fontSize |-> label]

InitEngine ==
    /\ engine_in \in
          {EngineCall("truncate_text", t, 1200, None) :
               t \in SeqsUpTo(Characters, MaxTextChars)}
          \cup {EngineCall("create_heading_element", <<>>, w, l) :
                    w \in EngineWidths, l \in FontSizeLabels}
          \cup {EngineCall("breakpoint", <<>>, w, None) : w \in EngineWidths}
    /\ engine_out = NoCall
    /\ earlierIdle /\ entryIdle /\ raceIdle /\ streamIdle

TruncateText ==
    /\ engine_out = NoCall
    /\ engine_in.op = "truncate_text"
    /\ engine_out' = [op |-> "truncate_text",
                      text |-> truncate_text(engine_in.text, engine_in.max_chars)]
    /\ UNCHANGED <<engine_in, earlierVars, entryVars, raceVars, streamVars>>

CreateHeadingElement ==
    /\ engine_out = NoCall
    /\ engine_in.op = "create_heading_element"
    /\ engine_out' = [op |-> "create_heading_element",
                      fontSize |-> heading_font_size(
                          engine_in.fontSize, calculate_base_font_size(engine_in.width))]
    /\ UNCHANGED <<engine_in, earlierVars, entryVars, raceVars, streamVars>>

SelectBreakpoint ==
    /\ engine_out = NoCall
    /\ engine_in.op = "breakpoint"
    /\ engine_out' = [op |-> "breakpoint",
                      engine |-> Breakpoint(engine_in.width),
                      filler |-> filler_breakpoint(engine_in.width)]
    /\ UNCHANGED <<engine_in, earlierVars, entryVars, raceVars, streamVars>>

NextEngine ==
    \/ TruncateText
    \/ CreateHeadingElement
    \/ SelectBreakpoint
SpecEngine == InitEngine /\ [][NextEngine]_vars

\* the 0-based indices of the spaces in the last 30% of the first max_chars
\* characters, the index 0.7 * max_chars included
SpacesNearEnd(text, max_chars) ==
    {i \in 0..(max_chars - 1) : i * 10 >= max_chars * 7 /\ text[i + 1] = " "}

\* C32: a text of at most max_chars characters is returned unchanged; a
\* longer one with a space in the last 30% of its first max_chars
\* characters, a space exactly at 0.7 * max_chars included, is cut at the
\* last such space, so no word is split.
C32_TruncateAtWordBoundary ==
    engine_out.op = "truncate_text" =>
        LET text == engine_in.text
            max_chars == engine_in.max_chars
            near == SpacesNearEnd(text, max_chars)
        IN  /\ Len(text) <= max_chars => engine_out.text = text
            /\ (Len(text) > max_chars /\ near # {}) =>
                   \E i \in near :
                       /\ \A j \in near : j <= i
                       /\ engine_out.text = SubSeq(text, 1, i) \o Ellipsis

\* C33: below 768 px the heading font size lies in [16.8, 46.8] px for
\* every size label and for an unrecognised one.
C33_MobileHeadingFontRange ==
    (engine_out.op = "create_heading_element" /\ engine_in.width < 768) =>
        /\ engine_out.fontSize * 10 >= 168
        /\ engine_out.fontSize * 10 <= 468

\* C34: a width below 768 is mobile, from 768 to 1023 tablet, from 1024 on
\* desktop, and the Template Engine and the Filler agree on every width.
C34_BreakpointMapping ==
    engine_out.op = "breakpoint" =>
        LET width == engine_in.width
        IN  /\ engine_out.engine = engine_out.filler
            /\ width <= 767 => engine_out.engine = "mobile"
            /\ (width >= 768 /\ width <= 1023) => engine_out.engine = "tablet"
            /\ width >= 1024 => engine_out.engine = "desktop"

C34_Witness ==
    /\ engine_out.op = "breakpoint"
    /\ engine_in.width = 1024
    /\ engine_out.filler = "desktop"



(***************************************************************************)
(* SpecShared: requests of generate_lesson_merged_audio for one lesson of  *)
(* narrated slides, interleaved at their awaits, on one TTS cache          *)
(* directory and one stored lesson.  Every synthesis succeeds and every    *)
(* clip decodes, so a missing clip or a missing URL comes from the         *)
(* interleaving or the cache alone.  max_audio_cache_size is scaled down.  *)
(***************************************************************************)
MaxCacheSize == 2
MaxRequests == 2
AudioRequests == 1..MaxRequests
\* the audio ids of the lesson's narrations: sha256 of text and voice, the
\* same for every request
LessonClipIds == <<"s1", "s2">>
\* files of other texts in the cache
OtherClipIds == {"x", "y"}
NoRead == [done |-> FALSE, paths |-> <<>>, missing |-> {}, merged_audio_url |-> None]

InCache(files, audio_id) == \E k \in 1..Len(files) : files[k] = audio_id

RECURSIVE Within(_, _)
\* the members of a sequence that are in a set, in their order
Within(s, S) ==
    IF s = <<>> THEN <<>>
    ELSE IF Head(s) \in S THEN <<Head(s)>> \o Within(Tail(s), S)
    ELSE Within(Tail(s), S)

FilesOf(files) == {files[k] : k \in 1..Len(files)}

\* PiperTTSService._cleanup_cache: beyond max_cache_size files the oldest go
cleanup_cache(files) ==
    IF Len(files) <= MaxCacheSize THEN files
    ELSE SubSeq(files, Len(files) - MaxCacheSize + 1, Len(files))

\* the files a step removed, marked with the reason
MarkRemoved(marks, before, after, reason) ==
    LET gone == {before[k] : k \in 1..Len(before)} \ {after[k] : k \in 1..Len(after)}
        kept == {a \in DOMAIN marks : InCache(after, a)}
    IN  [a \in (DOMAIN marks \ kept) \cup gone |-> IF a \in gone THEN reason ELSE marks[a]]

\* sequences without repetition over a set, up to a length
DistinctSeqs(S, n) == {q \in SeqsUpTo(S, n) : \A j, k \in 1..Len(q) : j # k => q[j] # q[k]}

InitShared ==
    /\ race_pc = [r \in AudioRequests |-> "start"]
    /\ cache_dir \in DistinctSeqs(OtherClipIds \cup {LessonClipIds[1]}, MaxCacheSize)
    /\ removed_clips = <<>>
    /\ recorded_ids = [r \in AudioRequests |-> <<>>]
    /\ merge_read = [r \in AudioRequests |-> NoRead]
    /\ lesson_doc = [audio_generated |-> FALSE, merged_audio_url |-> None]
    /\ earlierIdle /\ entryIdle /\ engineIdle /\ streamIdle

notShared == <<earlierVars, entryVars, engineVars, streamVars>>

\* lines 603-619: the stored result is returned, nothing else happens
ReturnStored(r) ==
    /\ race_pc[r] = "start"
    /\ lesson_doc.audio_generated /\ lesson_doc.merged_audio_url # None
    /\ race_pc' = [race_pc EXCEPT ![r] = "returned"]
    /\ UNCHANGED <<cache_dir, removed_clips, recorded_ids, merge_read, lesson_doc, notShared>>

BeginSynthesis(r) ==
    /\ race_pc[r] = "start"
    /\ ~(lesson_doc.audio_generated /\ lesson_doc.merged_audio_url # None)
    /\ race_pc' = [race_pc EXCEPT ![r] = "tts"]
    /\ UNCHANGED <<cache_dir, removed_clips, recorded_ids, merge_read, lesson_doc, notShared>>

\* one iteration of the TTS loop: generate_audio returns the id of a cached
\* file as it is, or writes the file and runs _cleanup_cache
SynthesizeClip(r) ==
    /\ race_pc[r] = "tts"
    /\ LET audio_id == LessonClipIds[Len(recorded_ids[r]) + 1]
           written == IF InCache(cache_dir, audio_id) THEN cache_dir
                      ELSE cleanup_cache(Append(cache_dir, audio_id))
       IN  /\ cache_dir' = written
           /\ removed_clips' = MarkRemoved(removed_clips, cache_dir, written, "evicted")
           /\ recorded_ids' = [recorded_ids EXCEPT ![r] = Append(@, audio_id)]
           /\ race_pc' = [race_pc EXCEPT
                             ![r] = IF Len(recorded_ids[r]) + 1 = Len(LessonClipIds)
                                    THEN "merge" ELSE "tts"]
    /\ UNCHANGED <<merge_read, lesson_doc, notShared>>

\* lines 704-790: the clips still on disk are merged and then removed by
\* cleanup_individual_files; with none on disk there is no merged audio
MergeClips(r) ==
    /\ race_pc[r] = "merge"
    /\ LET audio_file_paths == Within(recorded_ids[r], FilesOf(cache_dir))
           missing == {recorded_ids[r][k] : k \in 1..Len(recorded_ids[r])}
                          \ {audio_file_paths[k] : k \in 1..Len(audio_file_paths)}
           cleaned == Within(cache_dir, FilesOf(cache_dir) \ FilesOf(audio_file_paths))
       IN  /\ merge_read' = [merge_read EXCEPT ![r] =
                  [done |-> TRUE, paths |-> audio_file_paths, missing |-> missing,
                   merged_audio_url |-> IF audio_file_paths # <<>> THEN MergedAudioUrl
                                        ELSE None]]
           /\ cache_dir' = cleaned
           /\ removed_clips' = MarkRemoved(removed_clips, cache_dir, cleaned, "cleaned")
    /\ race_pc' = [race_pc EXCEPT ![r] = "persist"]
    /\ UNCHANGED <<recorded_ids, lesson_doc, notShared>>

\* lines 820-827: lesson.update({"$set": {...}})
PersistAudio(r) ==
    /\ race_pc[r] = "persist"
    /\ lesson_doc' = [audio_generated |-> TRUE,
                      merged_audio_url |-> merge_read[r].merged_audio_url]
    /\ race_pc' = [race_pc EXCEPT ![r] = "done"]
    /\ UNCHANGED <<cache_dir, removed_clips, recorded_ids, merge_read, notShared>>

NextShared ==
    \E r \in AudioRequests :
        \/ ReturnStored(r)
        \/ BeginSynthesis(r)
        \/ SynthesizeClip(r)
        \/ MergeClips(r)
        \/ PersistAudio(r)
SpecShared == InitShared /\ [][NextShared]_vars

\* C36: every clip whose audio_id a request recorded is still on disk when
\* that request's merge reads it: neither the cache eviction run by a later
\* synthesis nor the clean-up of another request removes it.
C36_RecordedClipsExistAtMerge ==
    \A r \in DOMAIN merge_read : merge_read[r].done => merge_read[r].missing = {}

AcceptedAttempts(outcomes, constraints, field_name) ==
    {k \in 1..(max_retries + 1) :
        LET raw_content == call_llm(outcomes[k], constraints)
        IN  /\ ~raw_content.raised
            /\ is_content_acceptable(sanitize_llm_output(raw_content.value), field_name)}

\* C38: the retry loop of one field makes at most max_retries attempts
\* after the first, sends the prompt with the topic-focus sentence on every
\* attempt after the first, stops at the first accepted response and
\* always returns a non-empty string.
C38_RetryLoopBounded ==
    slide_out.op = "call_llm_with_retry" =>
        LET run == slide_out.result
            constraints == Get(get_responsive_constraints(
                                   get_template(slide_in.template_id), slide_out.width),
                               slide_out.field_name, TextCfg)
            accepted == AcceptedAttempts(slide_in.llm, constraints, slide_out.field_name)
        IN  /\ Len(run.prompts) >= 1
            /\ Len(run.prompts) <= 1 + max_retries
            /\ \A k \in 1..Len(run.prompts) :
                   run.prompts[k] = IF k = 1 THEN "prompt" ELSE "focused_prompt"
            /\ accepted # {} =>
                   /\ Len(run.prompts) \in accepted
                   /\ \A k \in accepted : Len(run.prompts) <= k
            /\ accepted = {} => Len(run.prompts) = 1 + max_retries
            /\ TextLen(run.content) > 0

\* A loop that was refused twice and accepted on its last attempt.
C38_Witness ==
    /\ slide_out.op = "call_llm_with_retry"
    /\ slide_in.llm[1] = LlmRaise
    /\ slide_in.llm[2] = LlmText(BlankText)
    /\ slide_in.llm[3] = LlmText(GoodText)
    /\ slide_out.result.prompts = <<"prompt", "focused_prompt", "focused_prompt">>
    /\ slide_out.result.content # FillerFallback(slide_out.field_name)



(***************************************************************************)
(* SpecStream: generate_streaming_audio.  One task per chunk is created    *)
(* at once and the tasks finish in any order; the generator runs one       *)
(* iteration of its while loop per step, from one suspension (a yield or   *)
(* the 0.1 s sleep) to the next.  _generate_single_chunk_async catches     *)
(* every exception, so a task ends with a ready chunk or with a failed     *)
(* one.  A stream of no chunks stands for the early returns.               *)
(***************************************************************************)
MaxChunks == 3
ChunkOutcomes == {"ready", "failed"}

\* the StreamingAudioChunk a finished task returns
StreamingAudioChunk(index, outcome) ==
    [index |-> index, is_ready |-> outcome = "ready"]

\* a generator that yields whatever has been collected
yieldable_as_completed(pending, next_index) == DOMAIN pending

\* lines 861-865: only the result of index len(yielded_indices) is yielded
yieldable(pending, next_index) ==
    IF next_index \in DOMAIN pending THEN {next_index} ELSE {}

yielded_indices == {yielded[k].index : k \in 1..Len(yielded)}

\* lines 840-844: the tasks that are done and not yet yielded
DoneTasks == {i \in DOMAIN generation_tasks :
                 i \notin yielded_indices /\ generation_tasks[i] # "running"}

\* pending_results after the for loop over generation_tasks
Collected ==
    [i \in DOMAIN pending_results \cup DoneTasks |->
        IF i \in DoneTasks THEN StreamingAudioChunk(i, generation_tasks[i])
        ELSE pending_results[i]]

\* generation_tasks after the for loop: the collected tasks are deleted
Uncollected == [i \in DOMAIN generation_tasks \ DoneTasks |-> generation_tasks[i]]

InitStream ==
    /\ stream_pc = "polling"
    /\ \E n \in 0..MaxChunks : generation_tasks = [i \in 0..(n - 1) |-> "running"]
    /\ pending_results = <<>>
    /\ yielded = <<>>
    /\ earlierIdle /\ entryIdle /\ engineIdle /\ raceIdle

notStream == <<earlierVars, entryVars, engineVars, raceVars>>

\* the number of chunks of the stream
ChunkCount == Cardinality(DOMAIN generation_tasks \cup DOMAIN pending_results
                              \cup yielded_indices)

\* the task of one chunk finishes, with audio or without
FinishChunk(i) ==
    /\ i \in DOMAIN generation_tasks
    /\ generation_tasks[i] = "running"
    /\ \E outcome \in ChunkOutcomes :
          generation_tasks' = [generation_tasks EXCEPT ![i] = outcome]
    /\ UNCHANGED <<stream_pc, pending_results, yielded, notStream>>

\* one iteration of the while loop that ends in the yield
YieldNext ==
    /\ stream_pc = "polling"
    /\ Len(yielded) < ChunkCount
    /\ \E i \in yieldable(Collected, Cardinality(yielded_indices)) :
          /\ yielded' = Append(yielded, Collected[i])
          /\ pending_results' = [j \in DOMAIN Collected \ {i} |-> Collected[j]]
    /\ generation_tasks' = Uncollected
    /\ UNCHANGED <<stream_pc, notStream>>

\* one iteration that ends in asyncio.sleep(0.1)
SleepPoll ==
    /\ stream_pc = "polling"
    /\ Len(yielded) < ChunkCount
    /\ yieldable(Collected, Cardinality(yielded_indices)) = {}
    /\ pending_results' = Collected
    /\ generation_tasks' = Uncollected
    /\ UNCHANGED <<stream_pc, yielded, notStream>>

\* the while condition fails: the generator returns
EndStream ==
    /\ stream_pc = "polling"
    /\ ~(Len(yielded) < ChunkCount)
    /\ stream_pc' = "ended"
    /\ UNCHANGED <<generation_tasks, pending_results, yielded, notStream>>

NextStream ==
    \/ \E i \in 0..(MaxChunks - 1) : FinishChunk(i)
    \/ YieldNext
    \/ SleepPoll
    \/ EndStream
SpecStream == InitStream /\ [][NextStream]_vars

\* The event loop runs every created task to its end while the generator
\* sleeps, and the consumer keeps iterating the generator.
SpecStreamFair ==
    /\ SpecStream
    /\ \A i \in 0..(MaxChunks - 1) : WF_vars(FinishChunk(i))
    /\ WF_vars(YieldNext) /\ WF_vars(SleepPoll) /\ WF_vars(EndStream)

YieldedInOrder == \A k \in 1..Len(yielded) : yielded[k].index = k - 1

\* C39: whatever the order in which the chunk tasks finish, the chunks are
\* yielded in strictly increasing index order, each exactly once, and the
\* stream ends after the last chunk, also when a chunk failed.
C39_OrderedStreamTerminates ==
    /\ [](YieldedInOrder /\ Len(yielded) <= ChunkCount)
    /\ [](stream_pc = "ended" => Len(yielded) = ChunkCount)
    /\ <>(stream_pc = "ended")

\* A stream of three chunks ended although the second chunk failed.
C39_Witness ==
    /\ stream_pc = "ended"
    /\ Len(yielded) = MaxChunks
    /\ ~yielded[2].is_ready
    /\ yielded[3].is_ready

=============================================================================
